---- MODULE Spec2Model ----
(***************************************************************************)
(* A model of the llm-proxy backend (backend/src).                         *)
(*                                                                         *)
(* Several state machines share this module:                               *)
(*   Spec     - the index manager: run_index / do_index / process_file,    *)
(*              the scheduler, the trigger handlers, uploads, deletes and  *)
(*              the documents endpoint acting on the vector collection     *)
(*              (SpecConc is the same machine with the disk left alone,    *)
(*              FairConc adds weak fairness of every started pass,         *)
(*              SpecStatus the status and configuration endpoints,         *)
(*              SpecWalk an upload directory that holds version stores);   *)
(*   SpecVer  - the versioned file store of one file: save_version,        *)
(*              rollback_to_version and the upload / delete / create       *)
(*              handlers that call them (SpecVerIO adds I/O failures,      *)
(*              SpecSaves runs an upload and a rollback at the same time   *)
(*              with their file operations interleaved);                   *)
(*   SpecChat - the per-request chat pipeline;                             *)
(*   SpecMask, SpecPaths, SpecChunker - calls of the PII detector, of the  *)
(*              path resolvers with their handlers, and of chunk_text      *)
(*              (SpecUpload: the destination of an uploaded file).         *)
(* Each specification leaves the variables of the others unchanged.        *)
(***************************************************************************)
EXTENDS Integers, Sequences, FiniteSets, TLC

VARIABLES
    \* ---- index manager (rag/index_manager.rs) ----
    status,     \* IndexStatus behind the mutex
    disk,       \* upload_dir: path -> content ("none" when the file is absent)
    points,     \* ids of the points of the vector collection
    pc,         \* position of every task
    loc,        \* locals of every task's run_index / do_index call
    clock,      \* Utc::now(): advances with every call of a handler or wake-up
    envOps,     \* number of writes made by the other handlers so far
    quiet,      \* history: "clean" or "faulty" when the last pass ran and
                \*   ended with nothing else writing files or points since it
                \*   started ("faulty": a call it made failed), else "no"
    lock,       \* the task holding the guard of the status mutex between two
                \*   steps ("free": a critical section is one step, the guard
                \*   is taken and dropped within it)
    seen,       \* what the latest get_status call returned
    \* ---- versioned file store (rag/versioning.rs) ----
    live,       \* content of the live file F (Absent when there is none)
    meta,       \* the versions of .versions/F/meta.json, oldest first
    payload,    \* the files v<version>_<ts>.<ext> of .versions/F
    vnow,       \* Utc::now().timestamp()
    vres,       \* the response of the last file handler call
    ops,        \* number of file handler calls made so far
    hist,       \* history: the contents saved by the successful save_version
                \*   calls since F had no history, in order
    saves,      \* the locals of the upload and of the rollback handler whose
                \*   save_version calls run at the same time
    \* ---- chat pipeline (main.rs chat_completion_handler) ----
    chat,       \* the locals of every chat_completion_handler call
    detector,   \* state.pii_detector, shared by the calls under its mutex
    prompt_logs,    \* the rows of the prompt_logs table
    last_mappings,  \* history: the mappings of the latest detect_and_mask
    \* ---- library functions and the path handlers ----
    mask,       \* one detect_and_mask / unmask round trip
    paths,      \* the directory tree and the answer to the latest request
    chunker     \* the locals of one chunk_text call

idxVars  == <<status, disk, points, pc, loc, clock, envOps, quiet, lock, seen>>
verVars  == <<live, meta, payload, vnow, vres, ops, hist, saves>>
chatVars == <<chat, detector, prompt_logs, last_mappings>>
fnVars   == <<mask, paths, chunker>>
vars     == <<idxVars, verVars, chatVars, fnVars>>

-----------------------------------------------------------------------------
(***************************************************************************)
(* Index manager                                                           *)
(***************************************************************************)

\* The scheduler task and the detached tasks spawned by the trigger handlers.
Sched    == "sched"
Triggers == {"t1", "t2"}
Procs    == {Sched} \cup Triggers

\* Files of the upload directory.  A content is "none" (no such file), "bad"
\* (extract_text returns an error, e.g. invalid UTF-8) or a text that
\* chunk_text(text, 1000, 200) cuts into 0, 1 or 2 chunks ("t0" is blank).
PathA == [dirs |-> <<>>, stem |-> "a", ext |-> "txt"]
PathB == [dirs |-> <<"sub">>, stem |-> "b", ext |-> "md"]
Paths == {PathA, PathB}
Texts == {"t0", "t1", "t2"}
Contents == {"bad"} \cup Texts
\* The contents the model gives each file.
ContentsOf(p) == IF p = PathA THEN Contents ELSE {"t1"}

NumChunks(text) == CASE text = "t0" -> 0 [] text = "t1" -> 1 [] text = "t2" -> 2

\* SupportedFormat::from_extension
from_extension(ext) ==
    CASE ext \in {"txt", "md", "rs", "py", "js", "ts", "json", "yaml", "yml", "toml"}
              -> "PlainText"
      [] ext = "pdf"  -> "Pdf"
      [] ext = "docx" -> "Docx"
      [] ext = "xlsx" -> "Xlsx"
      [] ext = "pptx" -> "Pptx"
      [] OTHER -> "None"

\* The payload of version 1 and the meta.json that save_version keeps for
\* a.txt, and the payload it keeps for sub/b.md.
VersionPaths ==
    { [dirs |-> <<".versions", "a.txt">>, stem |-> "v1_0", ext |-> "txt"],
      [dirs |-> <<".versions", "a.txt">>, stem |-> "meta", ext |-> "json"],
      [dirs |-> <<"sub", ".versions", "b.md">>, stem |-> "v1_0", ext |-> "md"] }

\* The walk without filter_entry.
walk_directory_unfiltered(d) ==
    { p \in DOMAIN d : d[p] # "none" /\ from_extension(p.ext) # "None" }

\* walk_directory: the files that are not below a ".versions" entry and whose
\* extension maps to a format.
walk_directory(d) ==
    { p \in DOMAIN d :
        /\ d[p] # "none"
        /\ \A i \in 1..Len(p.dirs) : p.dirs[i] # ".versions"
        /\ from_extension(p.ext) # "None" }

\* file_id: hex of the first 8 bytes of SHA-256(path), one token of the id.
\* Distinct paths get distinct tokens (collisions are an accepted risk).
file_id(p) == <<"h" \o p.stem>>

\* format!("{}_{}", path_id, chunk.chunk_index)
chunk_id(p, i) == file_id(p) \o <<"_">> \o <<ToString(i)>>

\* id.split('_').next(): the tokens before the first '_'.
RECURSIVE split_first(_)
split_first(id) ==
    IF id = <<>> \/ Head(id) = "_" THEN <<>>
    ELSE <<Head(id)>> \o split_first(Tail(id))

\* Ids the documents endpoint stores (any string the client sends).
DocIds == { <<"doc", "_", "0">> }
FileIds == { chunk_id(p, i) : p \in Paths, i \in 0..1 }
AllIds == FileIds \cup DocIds
\* Points left by earlier runs.
InitIds == { id \in AllIds : id # chunk_id(PathB, 1) }

\* last_indexed_at: None (the clock starts at 1).
NoTime == 0

\* run_index is called while the clock is below MaxClock, and the other
\* handlers write files and points MaxEnvOps times.
MaxClock == 3
MaxEnvOps == 1

IdleLoc == [ files |-> <<>>, existing |-> {}, success_count |-> 0,
             total_chunks |-> 0, failed_files |-> <<>>, stale |-> {},
             result |-> "none", ret |-> "none", http |-> 0,
             sleep |-> 0,
             \* history of the pass: the cleanup removed every stale point;
             \* nothing else wrote files or points since the walk; a call
             \* failed; quiet and points as they were at the walk
             cleaned |-> FALSE, calm |-> FALSE, faults |-> FALSE,
             prev |-> "no", ids0 |-> {} ]

\* Positions between run_index setting is_indexing and resetting it.
BodyPcs == {"walk", "file", "scroll", "delete", "update"}
InBody(p) == pc[p] \in BodyPcs

\* IndexManager::new
NewStatus == [ is_indexing |-> FALSE, last_indexed_at |-> NoTime,
               total_files |-> 0, total_chunks |-> 0, failed_files |-> <<>>,
               auto_index_interval_minutes |-> 60, last_error |-> "none" ]

\* No get_status call was made yet.
NoView == [asked |-> FALSE, is_indexing |-> FALSE, awaiting |-> FALSE]

\* start_scheduler waits this many seconds before the first attempt.
FIRST_SLEEP == 60

\* The upload directory and the collection outlive the process: at start-up
\* they hold whatever earlier runs left.
InitIdx ==
    /\ status = NewStatus
    /\ disk \in { d \in [Paths -> {"none"} \cup Contents] :
                    \A f \in Paths : d[f] \in {"none"} \cup ContentsOf(f) }
    /\ points \in SUBSET InitIds
    /\ pc = [p \in Procs |-> IF p = Sched THEN "sleep" ELSE "idle"]
    /\ loc = [p \in Procs |-> IF p = Sched
                                  THEN [IdleLoc EXCEPT !.sleep = FIRST_SLEEP]
                                  ELSE IdleLoc]
    /\ clock = 1
    /\ envOps = 0
    /\ quiet = "no"
    /\ lock = "free"
    /\ seen = NoView

\* A change made by something other than the passes being compared: the
\* history of undisturbed passes starts again.
Uncalm(l) == [p \in Procs |-> [l[p] EXCEPT !.calm = FALSE]]

Disturbed ==
    /\ envOps < MaxEnvOps
    /\ envOps' = envOps + 1
    /\ quiet' = "no"
    /\ loc' = Uncalm(loc)


\* tokio::time::sleep elapsed: the scheduler loop calls run_index.
SchedWake ==
    /\ pc[Sched] = "sleep"
    /\ clock < MaxClock
    /\ clock' = clock + 1
    /\ pc' = [pc EXCEPT ![Sched] = "ri_start"]
    /\ loc' = [loc EXCEPT ![Sched] = [IdleLoc EXCEPT !.sleep = loc[Sched].sleep]]
    /\ UNCHANGED <<lock, seen, status, disk, points, envOps, quiet, verVars, chatVars, fnVars>>

\* The scheduler keeping the interval it slept the time before.
SchedReadIntervalOnce ==
    /\ pc[Sched] = "returned"
    /\ lock = "free"
    /\ pc' = [pc EXCEPT ![Sched] = "sleep"]
    /\ loc' = [loc EXCEPT ![Sched] =
                  [IdleLoc EXCEPT !.sleep = loc[Sched].sleep,
                                  !.ret = loc[Sched].ret]]
    /\ UNCHANGED <<lock, seen, status, disk, points, clock, envOps, quiet, verVars, chatVars, fnVars>>

\* The scheduler re-reads the interval after run_index returned, whatever it
\* returned (an Err is only logged), and sleeps; ret keeps what the attempt
\* returned until the sleep is over.
SchedReadInterval ==
    /\ pc[Sched] = "returned"
    /\ lock = "free"
    /\ pc' = [pc EXCEPT ![Sched] = "sleep"]
    /\ loc' = [loc EXCEPT ![Sched] =
                  [IdleLoc EXCEPT !.sleep = status.auto_index_interval_minutes * 60,
                                  !.ret = loc[Sched].ret]]
    /\ UNCHANGED <<lock, seen, status, disk, points, clock, envOps, quiet, verVars, chatVars, fnVars>>

\* The task spawned without looking at is_indexing.
TriggerHandlerAlwaysSpawn(p, okCode) ==
    /\ pc[p] = "idle"
    /\ lock = "free"
    /\ clock < MaxClock
    /\ pc' = [pc EXCEPT ![p] = "ri_start"]
    /\ loc' = [loc EXCEPT ![p] = [IdleLoc EXCEPT !.http = okCode]]
    /\ clock' = clock + 1
    /\ UNCHANGED <<lock, seen, status, disk, points, envOps, quiet, verVars, chatVars, fnVars>>

\* rag_trigger_index_handler: 409 while a pass runs, else spawn and 202.
TriggerHandlerBody(p, okCode) ==
    /\ pc[p] = "idle"
    /\ lock = "free"
    /\ clock < MaxClock
    /\ IF status.is_indexing
       THEN /\ pc' = [pc EXCEPT ![p] = "refused"]
            /\ loc' = [loc EXCEPT ![p] = [IdleLoc EXCEPT !.http = IF okCode = 202 THEN 409 ELSE 200]]
       ELSE /\ pc' = [pc EXCEPT ![p] = "ri_start"]
            /\ loc' = [loc EXCEPT ![p] = [IdleLoc EXCEPT !.http = okCode]]
    /\ clock' = clock + 1
    /\ UNCHANGED <<lock, seen, status, disk, points, envOps, quiet, verVars, chatVars, fnVars>>

ManualTrigger(p) == TriggerHandlerBody(p, 202)

\* rag_file_rollback_handler with reindex = true, after the rollback itself
\* (the restored file is a write to the disk, see WriteFile): spawn a pass
\* unless one is running; the answer is 200 either way.
RollbackTrigger(p) == TriggerHandlerBody(p, 200)

\* The request is answered and the spawned task, if any, has ended.
TaskEnd(p) ==
    /\ p \in Triggers
    /\ pc[p] \in {"returned", "refused"}
    /\ pc' = [pc EXCEPT ![p] = "idle"]
    /\ loc' = [loc EXCEPT ![p] = IdleLoc]
    /\ UNCHANGED <<lock, seen, status, disk, points, clock, envOps, quiet, verVars, chatVars, fnVars>>

\* The guard of the first critical section kept alive over do_index.
RunIndexStartHoldsLock(p) ==
    /\ pc[p] = "ri_start"
    /\ lock = "free"
    /\ IF status.is_indexing
       THEN /\ loc' = [loc EXCEPT ![p].ret = "AlreadyIndexing"]
            /\ pc' = [pc EXCEPT ![p] = "returned"]
            /\ status' = status
            /\ lock' = lock
       ELSE /\ status' = [status EXCEPT !.is_indexing = TRUE,
                                        !.last_error = "none",
                                        !.failed_files = <<>>]
            /\ pc' = [pc EXCEPT ![p] = "walk"]
            /\ loc' = loc
            /\ lock' = p
    /\ UNCHANGED <<seen, disk, points, clock, envOps, quiet, verVars, chatVars, fnVars>>

\* last_error and failed_files cleared before is_indexing is tested.
RunIndexStartClearsFirst(p) ==
    /\ pc[p] = "ri_start"
    /\ lock = "free"
    /\ IF status.is_indexing
       THEN /\ loc' = [loc EXCEPT ![p].ret = "AlreadyIndexing"]
            /\ pc' = [pc EXCEPT ![p] = "returned"]
            /\ status' = [status EXCEPT !.last_error = "none",
                                        !.failed_files = <<>>]
       ELSE /\ status' = [status EXCEPT !.is_indexing = TRUE,
                                        !.last_error = "none",
                                        !.failed_files = <<>>]
            /\ pc' = [pc EXCEPT ![p] = "walk"]
            /\ loc' = loc
    /\ UNCHANGED <<lock, seen, disk, points, clock, envOps, quiet, verVars, chatVars, fnVars>>

\* run_index, first critical section.
RunIndexStartChecked(p) ==
    /\ pc[p] = "ri_start"
    /\ lock = "free"
    /\ IF status.is_indexing
       THEN /\ loc' = [loc EXCEPT ![p].ret = "AlreadyIndexing"]
            /\ pc' = [pc EXCEPT ![p] = "returned"]
            /\ status' = status
       ELSE /\ status' = [status EXCEPT !.is_indexing = TRUE,
                                        !.last_error = "none",
                                        !.failed_files = <<>>]
            /\ pc' = [pc EXCEPT ![p] = "walk"]
            /\ loc' = loc
    /\ UNCHANGED <<lock, seen, disk, points, clock, envOps, quiet, verVars, chatVars, fnVars>>

\* The same without the re-entry check.
RunIndexStartUnchecked(p) ==
    /\ pc[p] = "ri_start"
    /\ lock = "free"
    /\ status' = [status EXCEPT !.is_indexing = TRUE,
                                !.last_error = "none",
                                !.failed_files = <<>>]
    /\ pc' = [pc EXCEPT ![p] = "walk"]
    /\ loc' = loc
    /\ UNCHANGED <<lock, seen, disk, points, clock, envOps, quiet, verVars, chatVars, fnVars>>

RunIndexStart(p) == RunIndexStartChecked(p)

\* All orders in which WalkDir may yield the files of a set.
Orders(S) == { s \in UNION { [1..n -> S] : n \in {Cardinality(S)} } :
                 \A i, j \in 1..Len(s) : i # j => s[i] # s[j] }

\* do_index: the walk and existing_file_hashes.
DoIndexWalk(p) ==
    /\ pc[p] = "walk"
    /\ \E order \in Orders(walk_directory(disk)) :
         loc' = [loc EXCEPT ![p].files = order,
                            ![p].existing = { file_id(f) : f \in walk_directory(disk) },
                            ![p].success_count = 0,
                            ![p].total_chunks = 0,
                            ![p].failed_files = <<>>,
                            ![p].cleaned = FALSE,
                            ![p].faults = FALSE,
                            ![p].calm = TRUE,
                            ![p].prev = quiet,
                            ![p].ids0 = points]
    /\ pc' = [pc EXCEPT ![p] = IF walk_directory(disk) = {} THEN "scroll" ELSE "file"]
    /\ UNCHANGED <<lock, seen, status, disk, points, clock, envOps, quiet, verVars, chatVars, fnVars>>

\* path.file_name()
file_name(f) == f.stem \o "." \o f.ext
\* The position after the file at the head of the list.
AfterFile(l) == IF Len(l.files) = 1 THEN "scroll" ELSE "file"

\* do_index: one iteration of the loop over the walked files, with
\* process_file.  The calls into the extractor, the chunker, the embedding
\* model and the vector store may fail or panic.
ProcessFileOk(p) ==
    /\ pc[p] = "file"
    /\ LET f == Head(loc[p].files)
           c == disk[f]
       IN /\ c \in Texts
          /\ points' = points \cup { chunk_id(f, i) : i \in 0..(NumChunks(c) - 1) }
          /\ loc' = [loc EXCEPT ![p].files = Tail(loc[p].files),
                                ![p].total_chunks = @ + NumChunks(c),
                                ![p].success_count = @ + 1]
    /\ pc' = [pc EXCEPT ![p] = AfterFile(loc[p])]
    /\ UNCHANGED <<lock, seen, status, disk, clock, envOps, quiet, verVars, chatVars, fnVars>>

\* The error of extract_text returned from do_index with ?.
ProcessFileExtractErrReturned(p) ==
    /\ pc[p] = "file"
    /\ disk[Head(loc[p].files)] \in {"none", "bad"}
    /\ loc' = [loc EXCEPT ![p] = [IdleLoc EXCEPT !.result = "err",
                                                 !.http = loc[p].http,
                                                 !.sleep = loc[p].sleep,
                                                 !.calm = loc[p].calm,
                                                 !.faults = TRUE]]
    /\ pc' = [pc EXCEPT ![p] = "finish"]
    /\ UNCHANGED <<lock, seen, status, disk, points, clock, envOps, quiet, verVars, chatVars, fnVars>>

\* extract_text fails: the file is unreadable or has gone since the walk.
ProcessFileExtractErr(p) ==
    /\ pc[p] = "file"
    /\ LET f == Head(loc[p].files)
       IN /\ disk[f] \in {"none", "bad"}
          /\ loc' = [loc EXCEPT ![p].files = Tail(loc[p].files),
                                ![p].failed_files = Append(@, file_name(f))]
    /\ pc' = [pc EXCEPT ![p] = AfterFile(loc[p])]
    /\ UNCHANGED <<lock, seen, status, disk, points, clock, envOps, quiet, verVars, chatVars, fnVars>>

\* embeddings.generate or add_document fails after j chunks were upserted.
ProcessFileStoreErr(p) ==
    /\ pc[p] = "file"
    /\ LET f == Head(loc[p].files)
           c == disk[f]
       IN /\ c \in Texts
          /\ \E j \in 0..(NumChunks(c) - 1) :
               points' = points \cup { chunk_id(f, i) : i \in 0..(j - 1) }
          /\ loc' = [loc EXCEPT ![p].files = Tail(loc[p].files),
                                ![p].failed_files = Append(@, file_name(f)),
                                ![p].faults = TRUE]
    /\ pc' = [pc EXCEPT ![p] = AfterFile(loc[p])]
    /\ UNCHANGED <<lock, seen, status, disk, clock, envOps, quiet, verVars, chatVars, fnVars>>

\* The calls of process_file that can panic on a file of content c:
\* extract_text on any file, chunk_text and the calls into the embedding
\* model and the vector store on a text that is not blank.
PanicSites(c) ==
    IF c \in Texts /\ NumChunks(c) > 0 THEN {"extractor", "chunker", "store"}
    ELSE {"extractor"}

\* The panic caught around process_file: the file is recorded as failed and
\* the loop goes on.
ProcessFilePanicAbsorbed(p) ==
    /\ pc[p] = "file"
    /\ LET f == Head(loc[p].files)
           c == disk[f]
       IN /\ c # "none"
          /\ \E site \in PanicSites(c) :
               loc' = [loc EXCEPT ![p].files = Tail(loc[p].files),
                                  ![p].failed_files = Append(@, file_name(f)),
                                  ![p].result = "panic in " \o site,
                                  ![p].faults = TRUE]
    /\ pc' = [pc EXCEPT ![p] = AfterFile(loc[p])]
    /\ UNCHANGED <<lock, seen, status, disk, points, clock, envOps, quiet, verVars, chatVars, fnVars>>

\* A panic below do_index: catch_unwind hands it to run_index, the rest of
\* do_index does not run.  A panic of the vector store comes after j chunks
\* of the file were upserted.
ProcessFilePanic(p) ==
    /\ pc[p] = "file"
    /\ LET f == Head(loc[p].files)
           c == disk[f]
       IN /\ c # "none"
          /\ \E site \in PanicSites(c) :
               /\ loc' = [loc EXCEPT ![p] =
                             [IdleLoc EXCEPT !.result = "panic in " \o site,
                                             !.http = loc[p].http,
                                             !.sleep = loc[p].sleep,
                                             !.calm = loc[p].calm,
                                             !.faults = TRUE]]
               /\ IF site = "store"
                  THEN \E j \in 0..(NumChunks(c) - 1) :
                         points' = points \cup { chunk_id(f, i) : i \in 0..(j - 1) }
                  ELSE points' = points
    /\ pc' = [pc EXCEPT ![p] = "finish"]
    /\ UNCHANGED <<lock, seen, status, disk, clock, envOps, quiet, verVars, chatVars, fnVars>>

\* The filter comparing the whole id with the hashes.
StaleIdsWholeId(all_ids, existing) == { id \in all_ids : id \notin existing }

\* The ids the stale cleanup selects from a scroll result.
StaleIds(all_ids, existing) == { id \in all_ids : split_first(id) \notin existing }

\* The cleanup skipped when a file failed.
ScrollOkSkipOnFailure(p) ==
    /\ pc[p] = "scroll"
    /\ LET stale == IF loc[p].failed_files # <<>> THEN {}
                    ELSE StaleIds(points, loc[p].existing)
       IN /\ loc' = [loc EXCEPT ![p].stale = stale, ![p].cleaned = (stale = {})]
          /\ pc' = [pc EXCEPT ![p] = IF stale = {} THEN "update" ELSE "delete"]
    /\ UNCHANGED <<lock, seen, status, disk, points, clock, envOps, quiet, verVars, chatVars, fnVars>>

\* Stale cleanup: scroll_all_point_ids.
ScrollOk(p) ==
    /\ pc[p] = "scroll"
    /\ LET stale == StaleIds(points, loc[p].existing)
       IN /\ loc' = [loc EXCEPT ![p].stale = stale, ![p].cleaned = (stale = {})]
          /\ pc' = [pc EXCEPT ![p] = IF stale = {} THEN "update" ELSE "delete"]
    /\ UNCHANGED <<lock, seen, status, disk, points, clock, envOps, quiet, verVars, chatVars, fnVars>>

ScrollErr(p) ==
    /\ pc[p] = "scroll"
    /\ loc' = [loc EXCEPT ![p].faults = TRUE]
    /\ pc' = [pc EXCEPT ![p] = "update"]
    /\ UNCHANGED <<lock, seen, status, disk, points, clock, envOps, quiet, verVars, chatVars, fnVars>>

\* Stale cleanup: delete_points(stale_ids).
DeleteOk(p) ==
    /\ pc[p] = "delete"
    /\ points' = points \ loc[p].stale
    /\ loc' = [loc EXCEPT ![p].cleaned = TRUE]
    /\ pc' = [pc EXCEPT ![p] = "update"]
    /\ UNCHANGED <<lock, seen, status, disk, clock, envOps, quiet, verVars, chatVars, fnVars>>

DeleteErr(p) ==
    /\ pc[p] = "delete"
    /\ loc' = [loc EXCEPT ![p].faults = TRUE]
    /\ pc' = [pc EXCEPT ![p] = "update"]
    /\ UNCHANGED <<lock, seen, status, disk, points, clock, envOps, quiet, verVars, chatVars, fnVars>>

\* The totals added to those of the pass before.
StatusUpdateAccumulating(p) ==
    /\ pc[p] = "update"
    /\ lock = "free"
    /\ status' = [status EXCEPT !.total_files = loc[p].success_count,
                                !.total_chunks = @ + loc[p].total_chunks,
                                !.failed_files = loc[p].failed_files]
    /\ loc' = [loc EXCEPT ![p] = [IdleLoc EXCEPT !.result = "ok",
                                                 !.http = loc[p].http,
                                                 !.sleep = loc[p].sleep,
                                                 !.calm = loc[p].calm,
                                                 !.faults = loc[p].faults,
                                                 !.prev = loc[p].prev]]
    /\ pc' = [pc EXCEPT ![p] = "finish"]
    /\ UNCHANGED <<lock, seen, disk, points, clock, envOps, quiet, verVars, chatVars, fnVars>>

\* total_files counting every walked file.
StatusUpdateCountsAll(p) ==
    /\ pc[p] = "update"
    /\ lock = "free"
    /\ status' = [status EXCEPT !.total_files = loc[p].success_count
                                                  + Len(loc[p].failed_files),
                                !.total_chunks = loc[p].total_chunks,
                                !.failed_files = loc[p].failed_files]
    /\ loc' = [loc EXCEPT ![p] = [IdleLoc EXCEPT !.result = "ok",
                                                 !.http = loc[p].http,
                                                 !.sleep = loc[p].sleep,
                                                 !.calm = loc[p].calm,
                                                 !.faults = loc[p].faults,
                                                 !.prev = loc[p].prev]]
    /\ pc' = [pc EXCEPT ![p] = "finish"]
    /\ UNCHANGED <<lock, seen, disk, points, clock, envOps, quiet, verVars, chatVars, fnVars>>

\* do_index: the totals, under the lock; do_index returns Ok.
StatusUpdate(p) ==
    /\ pc[p] = "update"
    /\ lock = "free"
    /\ status' = [status EXCEPT !.total_files = loc[p].success_count,
                                !.total_chunks = loc[p].total_chunks,
                                !.failed_files = loc[p].failed_files]
    /\ loc' = [loc EXCEPT ![p] = [IdleLoc EXCEPT !.result = "ok",
                                                 !.http = loc[p].http,
                                                 !.sleep = loc[p].sleep,
                                                 !.calm = loc[p].calm,
                                                 !.faults = loc[p].faults,
                                                 !.prev = loc[p].prev]]
    /\ pc' = [pc EXCEPT ![p] = "finish"]
    /\ UNCHANGED <<lock, seen, disk, points, clock, envOps, quiet, verVars, chatVars, fnVars>>

\* The match without the arm of a caught panic: is_indexing is not reset.
FinishStatusNoCatch(st, result, now) ==
    CASE result = "ok" ->
           [st EXCEPT !.is_indexing = FALSE, !.last_indexed_at = now,
                      !.last_error = "none"]
      [] result = "err" ->
           [st EXCEPT !.is_indexing = FALSE, !.last_error = "error"]
      [] OTHER -> st

\* run_index: the match on the caught result, under the lock.
FinishStatus(st, result, now) ==
    CASE result = "ok" ->
           [st EXCEPT !.is_indexing = FALSE, !.last_indexed_at = now,
                      !.last_error = "none"]
      [] result = "err" ->
           [st EXCEPT !.is_indexing = FALSE, !.last_error = "error"]
      [] OTHER ->
           [st EXCEPT !.is_indexing = FALSE, !.last_error = "panic"]

\* How the pass of the call ended, kept until the call is over: "ok" for
\* Ok(Ok(())), "failed" for an error or a caught panic.
Outcome(result) == IF result = "ok" THEN "ok" ELSE "failed"

RunIndexFinish(p) ==
    /\ pc[p] = "finish"
    /\ lock = "free"
    /\ status' = FinishStatus(status, loc[p].result, clock)
    /\ clock' = clock
    /\ pc' = [pc EXCEPT ![p] = "ret"]
    /\ envOps' = envOps
    /\ quiet' = IF ~loc[p].calm THEN "no"
                 ELSE IF loc[p].faults THEN "faulty" ELSE "clean"
    /\ loc' = [loc EXCEPT ![p] = [IdleLoc EXCEPT !.http = loc[p].http,
                                                 !.sleep = loc[p].sleep,
                                                 !.result = Outcome(loc[p].result)]]
    /\ UNCHANGED <<lock, seen, disk, points, verVars, chatVars, fnVars>>

\* run_index: the last critical section, the returned value.
RunIndexReturn(p) ==
    /\ pc[p] = "ret"
    /\ lock = "free"
    /\ loc' = [loc EXCEPT ![p].ret = IF status.last_error # "none" THEN "Err" ELSE "Ok"]
    /\ pc' = [pc EXCEPT ![p] = "returned"]
    /\ UNCHANGED <<lock, seen, status, disk, points, clock, envOps, quiet, verVars, chatVars, fnVars>>

\* An upload, a create or a rollback writes a file of the upload directory.
WriteFile(f, c) ==
    /\ disk[f] # c
    /\ disk' = [disk EXCEPT ![f] = c]
    /\ Disturbed
    /\ UNCHANGED <<lock, seen, status, points, pc, clock, verVars, chatVars, fnVars>>

\* rag_delete_file_handler
DeleteFile(f) ==
    /\ disk[f] # "none"
    /\ disk' = [disk EXCEPT ![f] = "none"]
    /\ Disturbed
    /\ UNCHANGED <<lock, seen, status, points, pc, clock, verVars, chatVars, fnVars>>

\* add_document_handler: a point under the client's id.
AddDocument(id) ==
    /\ id \notin points
    /\ points' = points \cup {id}
    /\ Disturbed
    /\ UNCHANGED <<lock, seen, status, disk, pc, clock, verVars, chatVars, fnVars>>

\* The positions at which a pass is suspended in a call of the vector
\* store: the upserts of process_file, the scroll and the delete.
AwaitPcs == {"file", "scroll", "delete"}

\* The intervals the configuration endpoint is given.
Intervals == {5, 60}

\* rag_status_handler: get_status clones the status under the lock.
rag_status_handler ==
    /\ lock = "free"
    /\ seen' = [asked |-> TRUE,
                is_indexing |-> status.is_indexing,
                awaiting |-> \E p \in Procs : pc[p] \in AwaitPcs]
    /\ UNCHANGED <<status, disk, points, pc, loc, clock, envOps, quiet, lock,
                   verVars, chatVars, fnVars>>

\* rag_config_handler: set_interval writes the interval under the lock.
rag_config_handler(minutes) ==
    /\ lock = "free"
    /\ status' = [status EXCEPT !.auto_index_interval_minutes = minutes]
    /\ UNCHANGED <<disk, points, pc, loc, clock, envOps, quiet, lock, seen,
                   verVars, chatVars, fnVars>>

\* The steps of one run_index call.
PassSteps(p) ==
    \/ RunIndexStart(p)
    \/ DoIndexWalk(p)
    \/ ProcessFileOk(p)
    \/ ProcessFileExtractErr(p)
    \/ ProcessFileStoreErr(p)
    \/ ProcessFilePanic(p)
    \/ ScrollOk(p)
    \/ ScrollErr(p)
    \/ DeleteOk(p)
    \/ DeleteErr(p)
    \/ StatusUpdate(p)
    \/ RunIndexFinish(p)
    \/ RunIndexReturn(p)

\* The handlers that write files and points.
EnvSteps ==
    \/ \E f \in Paths : \E c \in ContentsOf(f) : WriteFile(f, c)
    \/ \E f \in Paths : DeleteFile(f)
    \/ \E id \in DocIds : AddDocument(id)

\* The passes of the scheduler over every directory and collection.
NextIdx ==
    \/ SchedWake
    \/ SchedReadInterval
    \/ PassSteps(Sched)
    \/ EnvSteps

\* The scheduler and the trigger handlers calling run_index concurrently.
InitIdxConc ==
    /\ InitIdx
    /\ disk[PathA] \in {"bad", "t2"}
    /\ points \subseteq { chunk_id(PathB, 0) }

NextConc ==
    \/ SchedWake
    \/ SchedReadInterval
    \/ \E p \in Triggers : ManualTrigger(p)
    \/ \E p \in Triggers : RollbackTrigger(p)
    \/ \E p \in Triggers : TaskEnd(p)
    \/ \E p \in Procs : PassSteps(p)

-----------------------------------------------------------------------------
(***************************************************************************)
(* Version store of one file F of the upload directory (a.txt)             *)
(***************************************************************************)

MAX_VERSIONS == 10

\* F starts absent or after up to MaxInitSaves overwriting uploads; then
\* MaxOps handler calls are made, during which MaxNow seconds pass.
MaxInitSaves == 12
MaxOps == 3
MaxNow == 1

Absent == "none"
\* The bytes of the i-th upload of the initial history.
upload_bytes(i) == "c" \o ToString(i)
UploadContents == {"x", "yy"}
UploadComment == "Auto-saved before upload overwrite"
RollbackComment(version) == "Auto-saved before rollback to v" \o ToString(version)

\* Where a save_version call fails; "none" when it does not.
SaveFaults == {"none", "read_meta", "copy", "write_meta"}
\* "restore": the copy of the payload over the live file fails.
RollbackFaults == SaveFaults \cup {"restore"}

Store == [live |-> live, meta |-> meta, payload |-> payload]

\* The payload files whose name starts with v<version>_; the code takes the
\* first one read_dir yields.
find_version_file(dir, version) == { f \in dir : f.version = version }

\* The while loop of save_version: the results of removing the oldest
\* entries, and the payload file found for each, while at the cap.
RECURSIVE evict_above_cap(_, _)
evict_above_cap(versions, dir) ==
    IF Len(versions) > MAX_VERSIONS
    THEN LET found == find_version_file(dir, Head(versions).version)
         IN IF found = {} THEN evict_above_cap(Tail(versions), dir)
            ELSE UNION { evict_above_cap(Tail(versions), dir \ {f}) : f \in found }
    ELSE { [versions |-> versions, dir |-> dir] }

RECURSIVE evict(_, _)
evict(versions, dir) ==
    IF Len(versions) >= MAX_VERSIONS
    THEN LET found == find_version_file(dir, Head(versions).version)
         IN IF found = {} THEN evict(Tail(versions), dir)
            ELSE UNION { evict(Tail(versions), dir \ {f}) : f \in found }
    ELSE { [versions |-> versions, dir |-> dir] }

\* The next number taken from the count of the entries.
next_version_by_count(versions) == Len(versions) + 1

next_version(versions) ==
    IF versions = <<>> THEN 1 ELSE versions[Len(versions)].version + 1

\* fs::copy to v<version>_<ts>.<ext>: a file of that name is replaced.
copy_to(dir, file) ==
    { f \in dir : ~(f.version = file.version /\ f.ts = file.ts) } \cup {file}

\* save_version on store st: the possible results [ok, version, st].
save_version(st, comment, now, fault) ==
    IF st.live = Absent \/ fault = "read_meta"
    THEN { [ok |-> FALSE, version |-> 0, st |-> st] }
    ELSE LET next == next_version(st.meta)
             file == [version |-> next, ts |-> now, content |-> st.live]
             entry == [version |-> next, created_at |-> now,
                       size |-> Len(st.live), comment |-> comment]
         IN { CASE fault = "copy" ->
                     [ok |-> FALSE, version |-> 0,
                      st |-> [st EXCEPT !.payload = e.dir]]
                [] fault = "write_meta" ->
                     [ok |-> FALSE, version |-> 0,
                      st |-> [st EXCEPT !.payload = copy_to(e.dir, file)]]
                [] OTHER ->
                     [ok |-> TRUE, version |-> next,
                      st |-> [st EXCEPT !.meta = Append(e.versions, entry),
                                        !.payload = copy_to(e.dir, file)]]
              : e \in evict(st.meta, st.payload) }

\* The auto-save of a handler: nothing to save when F is absent.
auto_save(st, comment, now, fault) ==
    IF st.live = Absent THEN { [ok |-> TRUE, version |-> 0, st |-> st] }
    ELSE save_version(st, comment, now, fault)

\* The file of the name of ver_file in dir, if it is still there.
at_path(dir, ver_file) ==
    { g \in dir : g.version = ver_file.version /\ g.ts = ver_file.ts }

\* fs::copy(ver_file, file_path) after the save s.
restore(s, ver_file, fault) ==
    IF ~s.ok THEN { [ok |-> FALSE, saved |-> 0, st |-> s.st] }
    ELSE IF fault = "restore" \/ at_path(s.st.payload, ver_file) = {}
    THEN { [ok |-> FALSE, saved |-> s.version, st |-> s.st] }
    ELSE { [ok |-> TRUE, saved |-> s.version,
            st |-> [s.st EXCEPT !.live = g.content]]
           : g \in at_path(s.st.payload, ver_file) }

\* The live file overwritten first, and its new content saved afterwards.
rollback_copy_then_save(st, version, now, fault) ==
    IF \/ fault = "read_meta"
       \/ ~\E i \in 1..Len(st.meta) : st.meta[i].version = version
       \/ find_version_file(st.payload, version) = {}
    THEN { [ok |-> FALSE, saved |-> 0, st |-> st] }
    ELSE UNION { UNION { { [ok |-> s.ok, saved |-> s.version, st |-> s.st]}
                         : s \in auto_save([st EXCEPT !.live = ver_file.content],
                                           RollbackComment(version), now, fault) }
                 : ver_file \in find_version_file(st.payload, version) }

\* The auto-save made before the version is looked up in meta.
rollback_save_then_find(st, version, now, fault) ==
    UNION { IF \/ ~s.ok
               \/ ~\E i \in 1..Len(s.st.meta) : s.st.meta[i].version = version
               \/ find_version_file(s.st.payload, version) = {}
            THEN { [ok |-> FALSE, saved |-> s.version, st |-> s.st] }
            ELSE UNION { restore(s, ver_file, fault)
                         : ver_file \in find_version_file(s.st.payload, version) }
            : s \in auto_save(st, RollbackComment(version), now, fault) }

\* rollback_to_version on store st: the possible results [ok, saved, st].
rollback_to_version(st, version, now, fault) ==
    IF \/ fault = "read_meta"
       \/ ~\E i \in 1..Len(st.meta) : st.meta[i].version = version
       \/ find_version_file(st.payload, version) = {}
    THEN { [ok |-> FALSE, saved |-> 0, st |-> st] }
    ELSE UNION { UNION { restore(s, ver_file, fault)
                         : s \in auto_save(st, RollbackComment(version), now, fault) }
                 : ver_file \in find_version_file(st.payload, version) }

\* delete_versions: remove_dir_all of .versions/F.
delete_versions(st) == [st EXCEPT !.meta = <<>>, !.payload = {}]

NoResponse == [op |-> "none", code |-> 0, n |-> 0, saved |-> 0,
               before |-> Absent, undo |-> FALSE]

\* The handlers that call save_version on F: the upload that overwrites F
\* and the rollback of F.
Savers == {"upload", "rollback"}

\* No request of the handler was made yet.
NoSave == [pc |-> "idle", data |-> Absent, version |-> 0, ver_file |-> {},
           meta |-> <<>>, next_version |-> 0, saved |-> 0, code |-> 0]

\* F after k overwriting uploads of upload_bytes(1), upload_bytes(2), ...
RECURSIVE Uploaded(_)
Uploaded(k) ==
    IF k = 0
    THEN [st |-> [live |-> upload_bytes(1), meta |-> <<>>, payload |-> {}],
          hist |-> <<>>]
    ELSE LET prev == Uploaded(k - 1)
             s == CHOOSE r \in save_version(prev.st, UploadComment, 0, "none") : TRUE
         IN [st |-> [s.st EXCEPT !.live = upload_bytes(k + 1)],
             hist |-> Append(prev.hist, prev.st.live)]

InitVerIdle ==
    /\ live = Absent /\ meta = <<>> /\ payload = {}
    /\ vnow = 0 /\ vres = NoResponse /\ ops = 0 /\ hist = <<>>
    /\ saves = [c \in Savers |-> NoSave]

\* F is absent, or present after k overwriting uploads, k in Saves.
InitStore(Saves) ==
    /\ vnow = 0 /\ vres = NoResponse /\ ops = 0
    /\ saves = [c \in Savers |-> NoSave]
    /\ \/ live = Absent /\ meta = <<>> /\ payload = {} /\ hist = <<>>
       \/ \E k \in Saves :
             /\ live = Uploaded(k).st.live
             /\ meta = Uploaded(k).st.meta
             /\ payload = Uploaded(k).st.payload
             /\ hist = Uploaded(k).hist

SetStore(st) == live' = st.live /\ meta' = st.meta /\ payload' = st.payload

Response(op, code, n, saved, undo) ==
    /\ vres' = [op |-> op, code |-> code, n |-> n, saved |-> saved,
                before |-> live, undo |-> undo]
    /\ ops' = ops + 1

\* POST upload of F with the bytes c: the existing file is versioned (a
\* failure of save_version is only logged) and then overwritten.
rag_upload_handler(c, fault) ==
    /\ ops < MaxOps
    /\ \E s \in auto_save(Store, UploadComment, vnow, fault) :
          /\ SetStore([s.st EXCEPT !.live = c])
          /\ Response("upload", 200, 0, s.version, FALSE)
          /\ hist' = IF s.version # 0 THEN Append(hist, live) ELSE hist
    /\ UNCHANGED <<vnow, saves, idxVars, chatVars, fnVars>>

\* POST rollback of F to a version (the spawn of the re-index that ends the
\* handler is RollbackTrigger).
rag_file_rollback_handler(version, fault) ==
    /\ ops < MaxOps
    /\ IF live = Absent
       THEN /\ Response("rollback", 400, version, 0, FALSE)
            /\ UNCHANGED <<live, meta, payload, hist>>
       ELSE \E r \in rollback_to_version(Store, version, vnow, fault) :
              /\ SetStore(r.st)
              /\ Response("rollback", IF r.ok THEN 200 ELSE 500, version, r.saved,
                          /\ vres.op = "rollback"
                          /\ vres.code = 200
                          /\ vres.saved # 0
                          /\ vres.saved = version)
              /\ hist' = IF r.saved # 0 THEN Append(hist, live) ELSE hist
    /\ UNCHANGED <<vnow, saves, idxVars, chatVars, fnVars>>

\* DELETE of F: its versions, then the file.
rag_delete_file_handler ==
    /\ ops < MaxOps
    /\ IF live = Absent
       THEN /\ Response("delete", 400, 0, 0, FALSE)
            /\ UNCHANGED <<live, meta, payload, hist>>
       ELSE /\ SetStore([delete_versions(Store) EXCEPT !.live = Absent])
            /\ Response("delete", 200, 0, 0, FALSE)
            /\ hist' = <<>>
    /\ UNCHANGED <<vnow, saves, idxVars, chatVars, fnVars>>

\* POST create of F with the content c.
rag_create_file_handler(c) ==
    /\ ops < MaxOps
    /\ IF live # Absent
       THEN /\ Response("create", 409, 0, 0, FALSE)
            /\ UNCHANGED <<live, meta, payload, hist>>
       ELSE /\ SetStore([Store EXCEPT !.live = c])
            /\ Response("create", 200, 0, 0, FALSE)
            /\ UNCHANGED hist
    /\ UNCHANGED <<vnow, saves, idxVars, chatVars, fnVars>>

\* A second passes.
Tick ==
    /\ vnow < MaxNow
    /\ vnow' = vnow + 1
    /\ UNCHANGED <<live, meta, payload, vres, ops, hist, saves, idxVars, chatVars, fnVars>>

\* The versions a rollback request names: the listed ones, those of which a
\* payload file is on disk, and one that is neither.
Requested ==
    { meta[i].version : i \in 1..Len(meta) } \cup { f.version : f \in payload } \cup {0}

\* What the handler of c does once its save_version call is over or was not
\* needed: the upload writes the new bytes (a failed save is only logged),
\* the rollback copies the version file back unless the save failed.
AfterSave(c, ok) ==
    IF c = "upload" \/ ok
    THEN [saves[c] EXCEPT !.pc = "write"]
    ELSE [saves[c] EXCEPT !.pc = "done", !.code = 500]

\* The handler of c up to its save_version call.  The upload of the bytes
\* data calls it when dest is a file; the rollback to version refuses a path
\* that is not a file, reads meta, looks the version up in meta and on disk,
\* and calls it when the file exists.
HandlerBegin(c) ==
    /\ saves[c].pc = "idle"
    /\ \/ /\ c = "upload"
          /\ \E data \in UploadContents :
                saves' = [saves EXCEPT ![c] =
                            [@ EXCEPT !.data = data,
                                      !.pc = IF live = Absent THEN "write" ELSE "save"]]
       \/ /\ c = "rollback"
          /\ \E version \in Requested :
                IF live = Absent
                THEN saves' = [saves EXCEPT ![c] =
                                 [@ EXCEPT !.version = version, !.pc = "done", !.code = 400]]
                ELSE IF \/ ~\E i \in 1..Len(meta) : meta[i].version = version
                        \/ find_version_file(payload, version) = {}
                THEN saves' = [saves EXCEPT ![c] =
                                 [@ EXCEPT !.version = version, !.pc = "done", !.code = 500]]
                ELSE \E f \in find_version_file(payload, version) :
                        saves' = [saves EXCEPT ![c] =
                                    [@ EXCEPT !.version = version, !.ver_file = {f},
                                              !.pc = "save"]]
    /\ UNCHANGED <<live, meta, payload, vnow, vres, ops, hist, idxVars, chatVars, fnVars>>

\* save_version up to the next version number: the file is there, meta.json
\* is read, the number is one above the last entry read.
SaveRead(c) ==
    /\ saves[c].pc = "save"
    /\ saves' = [saves EXCEPT ![c] =
                   IF live = Absent THEN AfterSave(c, FALSE)
                   ELSE [@ EXCEPT !.meta = meta,
                                  !.next_version = next_version(meta),
                                  !.pc = "evict"]]
    /\ UNCHANGED <<live, meta, payload, vnow, vres, ops, hist, idxVars, chatVars, fnVars>>

\* The while loop of save_version on the entries read: the oldest ones are
\* dropped from them and their payload files removed from disk.
SaveEvict(c) ==
    /\ saves[c].pc = "evict"
    /\ \E e \in evict(saves[c].meta, payload) :
          /\ payload' = e.dir
          /\ saves' = [saves EXCEPT ![c] = [@ EXCEPT !.meta = e.versions, !.pc = "copy"]]
    /\ UNCHANGED <<live, meta, vnow, vres, ops, hist, idxVars, chatVars, fnVars>>

\* fs::copy of the live file to v<next>_<timestamp>.<ext>, and the entry
\* pushed on the entries read.
SaveCopy(c) ==
    /\ saves[c].pc = "copy"
    /\ IF live = Absent
       THEN /\ saves' = [saves EXCEPT ![c] = AfterSave(c, FALSE)]
            /\ UNCHANGED payload
       ELSE /\ payload' = copy_to(payload, [version |-> saves[c].next_version,
                                            ts |-> vnow, content |-> live])
            /\ saves' = [saves EXCEPT ![c] =
                  [@ EXCEPT !.meta = Append(@, [version |-> saves[c].next_version,
                                                created_at |-> vnow,
                                                size |-> Len(live),
                                                comment |-> IF c = "upload"
                                                            THEN UploadComment
                                                            ELSE RollbackComment(saves[c].version)]),
                            !.pc = "write_meta"]]
    /\ UNCHANGED <<live, meta, vnow, vres, ops, hist, idxVars, chatVars, fnVars>>

\* write_version_meta: meta.json is replaced by the entries of this call.
SaveWriteMeta(c) ==
    /\ saves[c].pc = "write_meta"
    /\ meta' = saves[c].meta
    /\ saves' = [saves EXCEPT ![c] =
                   [AfterSave(c, TRUE) EXCEPT !.saved = saves[c].next_version]]
    /\ UNCHANGED <<live, payload, vnow, vres, ops, hist, idxVars, chatVars, fnVars>>

\* The write that ends the handler: fs::write of the uploaded bytes, or
\* fs::copy of the version file found before the save over the live file.
HandlerWrite(c) ==
    /\ saves[c].pc = "write"
    /\ IF c = "upload"
       THEN /\ live' = saves[c].data
            /\ saves' = [saves EXCEPT ![c] = [@ EXCEPT !.pc = "done", !.code = 200]]
       ELSE \E f \in saves[c].ver_file :
              IF at_path(payload, f) = {}
              THEN /\ saves' = [saves EXCEPT ![c] = [@ EXCEPT !.pc = "done", !.code = 500]]
                   /\ UNCHANGED live
              ELSE \E g \in at_path(payload, f) :
                     /\ live' = g.content
                     /\ saves' = [saves EXCEPT ![c] = [@ EXCEPT !.pc = "done", !.code = 200]]
    /\ UNCHANGED <<meta, payload, vnow, vres, ops, hist, idxVars, chatVars, fnVars>>

\* No index pass runs while the file handlers are exercised.
InitIdxIdle == InitIdx /\ disk = [f \in Paths |-> "none"] /\ points = {}

-----------------------------------------------------------------------------
(***************************************************************************)
(* Chat pipeline (main.rs chat_completion_handler)                         *)
(*                                                                         *)
(* A text is a sequence of tokens; replace and contains work on tokens.    *)
(***************************************************************************)

ChatReqs == {"q1", "q2"}

Email == "taro@example.jp"
Email2 == "hanako@example.jp"
Address == "tokyo-to minato-ku"
Dangerous == "rm -rf /"
REDACTED_NOTICE == "[redacted]"
\* What the rng of the detector can draw for an e-mail address.
FakeEmails == {"fake1@example.jp", "fake2@example.jp"}
\* The length of the pool FAKE_ADDRESSES.
FAKE_ADDRESSES == 15
fake_address(i) == "fake-address-" \o ToString(i)

\* The tokens the patterns match.  A generated e-mail address is an e-mail
\* address and an address of the pool is an address, so the patterns match
\* them as well when a text holds them.
EMAIL_PATTERN == {Email, Email2} \cup FakeEmails
ADDRESS_PATTERN == {Address} \cup { fake_address(i) : i \in 0..(FAKE_ADDRESSES - 1) }
\* PATTERN.find_iter(text): the matches in the order of the text.
find_iter(pattern, text) == SelectSeq(text, LAMBDA t : t \in pattern)

Msg(role, content) == [role |-> role, content |-> content]
\* The bodies of the requests.
Bodies ==
    { << Msg("system", <<"hi">>) >>,
      << Msg("user", <<"hi">>) >>,
      << Msg("user", <<"hi", Email>>) >>,
      << Msg("user", <<Email>>), Msg("assistant", <<"hi">>),
         Msg("user", <<Address, "hi", Address>>) >>,
      << Msg("user", <<Email>>), Msg("user", <<"hi", Email>>) >> }
\* What retrieve_context returns: nothing found or a context.
RagContexts == { <<>>, <<"context:", Email>> }

contains(text, tok) == \E i \in 1..Len(text) : text[i] = tok
replace(text, from, to) ==
    [i \in 1..Len(text) |-> IF text[i] = from THEN to ELSE text[i]]

\* The index of the last message, whatever its role.
last_message(messages) == Len(messages)

\* The index of the last message of role "user", 0 when there is none.
last_user(messages) ==
    IF \E i \in 1..Len(messages) : messages[i].role = "user"
    THEN CHOOSE i \in 1..Len(messages) :
           /\ messages[i].role = "user"
           /\ \A j \in (i + 1)..Len(messages) : messages[j].role # "user"
    ELSE 0

\* HashMap::insert: the pair replaces the one of the same key.
insert(mappings, fake, real) ==
    { m \in mappings : m.fake # fake } \cup { [fake |-> fake, real |-> real] }

\* One loop of detect_and_mask over the matches caps of a pattern whose fake
\* values come from the rng (gen_fake_email): a match that is no longer in
\* the masked text is skipped, any other is replaced everywhere by the next
\* value drawn and the pair is inserted.
RECURSIVE mask_drawn(_, _, _)
mask_drawn(caps, acc, rng) ==
    IF caps = <<>> THEN acc
    ELSE LET real == Head(caps)
         IN IF ~contains(acc.text, real)
            THEN mask_drawn(Tail(caps), acc, rng)
            ELSE mask_drawn(Tail(caps),
                            [acc EXCEPT !.text = replace(@, real, Head(rng)),
                                        !.mappings = insert(@, Head(rng), real)],
                            Tail(rng))

\* The loop over the addresses: gen_fake_address takes the entry of the
\* pool at address_counter modulo its length and increments the counter.
RECURSIVE mask_pooled(_, _)
mask_pooled(caps, acc) ==
    IF caps = <<>> THEN acc
    ELSE LET real == Head(caps)
             fake == fake_address(acc.det.address_counter % FAKE_ADDRESSES)
         IN IF ~contains(acc.text, real)
            THEN mask_pooled(Tail(caps), acc)
            ELSE mask_pooled(Tail(caps),
                             [acc EXCEPT !.text = replace(@, real, fake),
                                         !.mappings = insert(@, fake, real),
                                         !.det.address_counter = @ + 1])

\* detect_and_mask: the loops over the patterns, each over the matches in
\* the original text (of the five patterns, the e-mail addresses stand for
\* those whose fake values are drawn from the rng).
detect_and_mask(det, text, rng) ==
    mask_pooled(find_iter(ADDRESS_PATTERN, text),
                mask_drawn(find_iter(EMAIL_PATTERN, text),
                           [text |-> text, mappings |-> {}, det |-> det],
                           rng))

\* The values the rng may yield for the matches of a text.
Draws(text) == [1..Len(find_iter(EMAIL_PATTERN, text)) -> FakeEmails]

\* unmask: every fake value of the mappings replaced by its real one, in the
\* order in which the map yields its pairs.
RECURSIVE unmask(_, _)
unmask(text, order) ==
    IF order = <<>> THEN text
    ELSE unmask(replace(text, Head(order).fake, Head(order).real), Tail(order))

\* OutputSanitizer::sanitize: the text with the notice for every match.
sanitize(text) == replace(text, Dangerous, REDACTED_NOTICE)

\* The responses the upstream can give to a request whose last user
\* message is sent: a ChatResponse with no choice, with one that echoes the
\* message, or with two that hold it and a dangerous command.
Replies(sent) ==
    { [id |-> "chatcmpl-1",
       choices |-> [i \in 1..Len(contents) |->
                      [index |-> i - 1, content |-> contents[i],
                       finish_reason |-> "stop"]]]
      : contents \in { <<>>,
                       << sent >>,
                       << <<"ok", Dangerous>> \o sent, <<Dangerous>> \o sent >> } }

\* The model id and the sampling parameters of the request of r (an absent
\* Option is the empty set; the temperature in tenths).
RequestOf(r) ==
    IF r = "q1"
    THEN [model |-> "gpt-4o", temperature |-> {7}, max_tokens |-> {256}, stream |-> {}]
    ELSE [model |-> "claude", temperature |-> {}, max_tokens |-> {}, stream |-> {FALSE}]

\* request holds the model id and the parameters of the ChatRequest, messages
\* its messages; body is history: the messages as the client sent them;
\* sent and sent_request are what chat_completion was given.
NewCall == [pc |-> "new", messages |-> <<>>, original_content |-> <<>>,
            rag_context |-> <<>>, masked_content |-> <<>>, mappings |-> {},
            sent |-> <<>>,
            llm_response |-> [id |-> "none", choices |-> <<>>],
            final_response |-> [id |-> "none", choices |-> <<>>],
            used_mappings |-> {}, code |-> 0, trace |-> <<>>,
            body |-> <<>>, request |-> RequestOf("none"),
            sent_request |-> RequestOf("none")]

InitChatIdle ==
    /\ chat = [r \in ChatReqs |-> NewCall]
    /\ detector = [address_counter |-> 0]
    /\ prompt_logs = {}
    /\ last_mappings = {}

\* The call r moves to pc with the fields of its locals set by upd.
Step(r, step, upd) ==
    chat' = [chat EXCEPT ![r] = [upd EXCEPT !.trace = Append(@, step)]]
\* The call r returns the error code.
Fail(r, code) ==
    chat' = [chat EXCEPT ![r] = [@ EXCEPT !.pc = "done", !.code = code]]

\* choices.first(): the content of the first choice of a response, the
\* empty string when it has none.
FirstContent(response) ==
    IF response.choices = <<>> THEN <<>> ELSE response.choices[1].content
\* choices.first_mut(): the content of the first choice replaced by text.
SetFirst(response, text) ==
    IF response.choices = <<>> THEN response
    ELSE [response EXCEPT !.choices[1].content = text]

\* The request arrives: the last user message, or 400.
ChatReceive(r) ==
    /\ chat[r].pc = "new"
    /\ \E body \in Bodies :
          IF last_user(body) = 0
          THEN chat' = [chat EXCEPT ![r] = [@ EXCEPT !.pc = "done", !.code = 400,
                                                    !.messages = body, !.body = body,
                                                    !.request = RequestOf(r)]]
          ELSE chat' = [chat EXCEPT ![r] =
                          [@ EXCEPT !.pc = "rag", !.messages = body, !.body = body,
                                    !.request = RequestOf(r),
                                    !.original_content = body[last_user(body)].content]]
    /\ UNCHANGED <<detector, prompt_logs, last_mappings, idxVars, verVars, fnVars>>

\* (1) retrieve_context on the original text.
ChatRetrieve(r) ==
    /\ chat[r].pc = "rag"
    /\ \E ctx \in RagContexts :
          Step(r, "rag", [chat[r] EXCEPT !.pc = "mask", !.rag_context = ctx])
    /\ UNCHANGED <<detector, prompt_logs, last_mappings, idxVars, verVars, fnVars>>

ChatRetrieveErr(r) ==
    /\ chat[r].pc = "rag"
    /\ Fail(r, 500)
    /\ UNCHANGED <<detector, prompt_logs, last_mappings, idxVars, verVars, fnVars>>

\* The masked text written into every message of role "user".
ChatMaskEveryUser(r) ==
    /\ chat[r].pc = "mask"
    /\ \E rng \in Draws(chat[r].rag_context \o chat[r].original_content) :
          LET m == detect_and_mask(detector,
                                   chat[r].rag_context \o chat[r].original_content,
                                   rng)
          IN /\ Step(r, "mask",
                     [chat[r] EXCEPT !.pc = "upstream",
                                     !.masked_content = m.text,
                                     !.mappings = m.mappings,
                                     !.messages =
                                        [i \in 1..Len(@) |->
                                           IF @[i].role = "user"
                                           THEN [@[i] EXCEPT !.content = m.text]
                                           ELSE @[i]]])
             /\ detector' = m.det
             /\ last_mappings' = m.mappings
    /\ UNCHANGED <<prompt_logs, idxVars, verVars, fnVars>>

\* (2) detect_and_mask under the detector's lock, and the last user message
\* replaced by the masked text.
ChatMask(r) ==
    /\ chat[r].pc = "mask"
    /\ \E rng \in Draws(chat[r].rag_context \o chat[r].original_content) :
          LET m == detect_and_mask(detector,
                                   chat[r].rag_context \o chat[r].original_content,
                                   rng)
              u == last_user(chat[r].messages)
          IN /\ Step(r, "mask",
                     [chat[r] EXCEPT !.pc = "upstream",
                                     !.masked_content = m.text,
                                     !.mappings = m.mappings,
                                     !.messages = [@ EXCEPT ![u].content = m.text]])
             /\ detector' = m.det
             /\ last_mappings' = m.mappings
    /\ UNCHANGED <<prompt_logs, idxVars, verVars, fnVars>>

\* (3) chat_completion: the request is sent and a response comes back.
ChatUpstream(r) ==
    /\ chat[r].pc = "upstream"
    /\ LET sent == chat[r].messages
           u == last_user(sent)
       IN \E reply \in Replies(sent[u].content) :
            Step(r, "upstream", [chat[r] EXCEPT !.pc = "unmask", !.sent = sent,
                                                !.sent_request = chat[r].request,
                                                !.llm_response = reply])
    /\ UNCHANGED <<detector, prompt_logs, last_mappings, idxVars, verVars, fnVars>>

\* The failure of the upstream surfaced as an internal error.
ChatUpstreamErrInternal(r) ==
    /\ chat[r].pc = "upstream"
    /\ chat' = [chat EXCEPT ![r] = [@ EXCEPT !.pc = "done", !.code = 500,
                                             !.sent = chat[r].messages,
                                             !.sent_request = chat[r].request]]
    /\ UNCHANGED <<detector, prompt_logs, last_mappings, idxVars, verVars, fnVars>>

\* chat_completion fails: the transport, a status that is not 2xx, or a
\* body that is not a response.
ChatUpstreamErr(r) ==
    /\ chat[r].pc = "upstream"
    /\ chat' = [chat EXCEPT ![r] = [@ EXCEPT !.pc = "done", !.code = 502,
                                             !.sent = chat[r].messages,
                                             !.sent_request = chat[r].request]]
    /\ UNCHANGED <<detector, prompt_logs, last_mappings, idxVars, verVars, fnVars>>

\* The mappings every call shares: those of the latest detect_and_mask.
shared_mappings(r) == last_mappings

\* The mappings handed to unmask: the local of the call.
unmask_mappings(r) == chat[r].mappings

\* (4) unmask of the first choice under the detector's lock.
ChatUnmask(r) ==
    /\ chat[r].pc = "unmask"
    /\ LET mp == unmask_mappings(r)
           resp == chat[r].llm_response
       IN \E order \in Orders(mp) :
            Step(r, "unmask",
                 [chat[r] EXCEPT !.pc = "sanitize", !.used_mappings = mp,
                    !.final_response = SetFirst(resp, unmask(FirstContent(resp), order))])
    /\ UNCHANGED <<detector, prompt_logs, last_mappings, idxVars, verVars, fnVars>>

\* The sanitizer run over every choice.
ChatSanitizeEveryChoice(r) ==
    /\ chat[r].pc = "sanitize"
    /\ LET resp == chat[r].final_response
       IN Step(r, "sanitize",
               [chat[r] EXCEPT !.pc = "log",
                  !.final_response =
                     [resp EXCEPT !.choices =
                        [i \in 1..Len(@) |->
                           [@[i] EXCEPT !.content = sanitize(@)]]]])
    /\ UNCHANGED <<detector, prompt_logs, last_mappings, idxVars, verVars, fnVars>>

\* (5) sanitize of the first choice.
ChatSanitize(r) ==
    /\ chat[r].pc = "sanitize"
    /\ LET resp == chat[r].final_response
       IN Step(r, "sanitize",
               [chat[r] EXCEPT !.pc = "log",
                  !.final_response = SetFirst(resp, sanitize(FirstContent(resp)))])
    /\ UNCHANGED <<detector, prompt_logs, last_mappings, idxVars, verVars, fnVars>>

LogEntry(r) ==
    [id |-> r,
     original_input |-> chat[r].original_content,
     masked_input |-> chat[r].masked_content,
     rag_context |-> chat[r].rag_context,
     llm_output |-> FirstContent(chat[r].llm_response),
     final_output |-> FirstContent(chat[r].final_response),
     pii_mappings |-> chat[r].mappings]

\* (6) log_request: the row is inserted.
ChatLog(r) ==
    /\ chat[r].pc = "log"
    /\ prompt_logs' = prompt_logs \cup { LogEntry(r) }
    /\ Step(r, "log", [chat[r] EXCEPT !.pc = "respond"])
    /\ UNCHANGED <<detector, last_mappings, idxVars, verVars, fnVars>>

\* The insert done although log_request reports a failure.
ChatLogErrAfterInsert(r) ==
    /\ chat[r].pc = "log"
    /\ prompt_logs' = prompt_logs \cup { LogEntry(r) }
    /\ Fail(r, 500)
    /\ UNCHANGED <<detector, last_mappings, idxVars, verVars, fnVars>>

\* log_request fails: the INSERT is not executed.
ChatLogErr(r) ==
    /\ chat[r].pc = "log"
    /\ Fail(r, 500)
    /\ UNCHANGED <<detector, prompt_logs, last_mappings, idxVars, verVars, fnVars>>

\* The response: 200 with final_response.
ChatRespond(r) ==
    /\ chat[r].pc = "respond"
    /\ Step(r, "respond", [chat[r] EXCEPT !.pc = "done", !.code = 200])
    /\ UNCHANGED <<detector, prompt_logs, last_mappings, idxVars, verVars, fnVars>>

NextChat ==
    \E r \in ChatReqs :
        \/ ChatReceive(r)
        \/ ChatRetrieve(r)
        \/ ChatRetrieveErr(r)
        \/ ChatMask(r)
        \/ ChatUpstream(r)
        \/ ChatUpstreamErr(r)
        \/ ChatUnmask(r)
        \/ ChatSanitize(r)
        \/ ChatLog(r)
        \/ ChatLogErr(r)
        \/ ChatRespond(r)

-----------------------------------------------------------------------------
(***************************************************************************)
(* detect_and_mask followed by unmask (filters/pii_detector.rs)            *)
(***************************************************************************)

\* The longest text masked and the values of address_counter at the call.
MaxTextLen == 3
MaxCounter == 1

MaskTokens == {"hi", Email, Email2, Address, fake_address(0)} \cup FakeEmails
MaskTexts == UNION { [1..n -> MaskTokens] : n \in 0..MaxTextLen }

NewMask == [pc |-> "idle", text |-> <<>>, det |-> [address_counter |-> 0],
            masked |-> <<>>, mappings |-> {}, restored |-> <<>>]

InitMaskIdle == mask = NewMask

\* A detector that has served any number of calls is given a text.
InitMask ==
    mask \in { [NewMask EXCEPT !.pc = "new", !.text = t,
                               !.det = [address_counter |-> c]] :
                 t \in MaskTexts, c \in 0..MaxCounter }

\* detector.detect_and_mask(text)
MaskCall ==
    /\ mask.pc = "new"
    /\ \E rng \in Draws(mask.text) :
         LET m == detect_and_mask(mask.det, mask.text, rng)
         IN mask' = [mask EXCEPT !.pc = "masked", !.masked = m.text,
                                 !.mappings = m.mappings, !.det = m.det]
    /\ UNCHANGED <<paths, chunker, idxVars, verVars, chatVars>>

\* detector.unmask(masked, mappings), the map iterated in any order.
UnmaskCall ==
    /\ mask.pc = "masked"
    /\ \E order \in Orders(mask.mappings) :
         mask' = [mask EXCEPT !.pc = "restored",
                              !.restored = unmask(mask.masked, order)]
    /\ UNCHANGED <<paths, chunker, idxVars, verVars, chatVars>>

NextMask == MaskCall \/ UnmaskCall

-----------------------------------------------------------------------------
(***************************************************************************)
(* Path resolution (index_manager.rs safe_resolve / safe_resolve_new) and  *)
(* the handlers that resolve a client's path (main.rs)                     *)
(*                                                                         *)
(* A path is the sequence of its components; a request's path is a flag    *)
(* (it starts with '/') and its components.                                *)
(***************************************************************************)

\* The longest path a request carries and the number of requests.
MaxRelLen == 3
MaxPathOps == 2

upload_dir == <<"srv", "uploads">>

Node(path, kind, target) == [path |-> path, kind |-> kind, target |-> target]
\* The directories and files at start-up: the upload directory holds a
\* symbolic link that leads out of it.
InitTree ==
    { Node(<<>>, "dir", <<>>), Node(<<"srv">>, "dir", <<>>),
      Node(upload_dir, "dir", <<>>),
      Node(upload_dir \o <<"out">>, "link", <<"etc">>),
      Node(<<"etc">>, "dir", <<>>), Node(<<"etc", "passwd">>, "file", <<>>) }

RelNames == {"..", "x..y", "out", "etc", "n"}
Rels == [abs : BOOLEAN, comps : UNION { [1..n -> RelNames] : n \in 0..MaxRelLen }]
\* The empty string.
NoRel == [abs |-> FALSE, comps |-> <<>>]

Entry(tree, path) == CHOOSE e \in tree : e.path = path
Ok(path) == [ok |-> TRUE, path |-> path, err |-> "none"]
Err(msg) == [ok |-> FALSE, path |-> <<>>, err |-> msg]

\* Path::join: a path that starts with '/' replaces the base.
join(base, rel) == IF rel.abs THEN rel.comps ELSE base \o rel.comps

\* Path::starts_with, by components.
starts_with(path, base) ==
    Len(base) <= Len(path) /\ SubSeq(path, 1, Len(base)) = base

\* Path::canonicalize: the components walked from the root, ".." resolved
\* against the directory reached, links followed; an error when a component
\* does not exist or a file is used as a directory.
RECURSIVE walk(_, _, _)
walk(tree, cur, rest) ==
    IF rest = <<>> THEN Ok(cur)
    ELSE IF Entry(tree, cur).kind # "dir" THEN Err("Invalid path")
    ELSE IF Head(rest) = ".."
         THEN walk(tree, SubSeq(cur, 1, Len(cur) - 1), Tail(rest))
    ELSE LET next == Append(cur, Head(rest))
         IN IF \A e \in tree : e.path # next THEN Err("Invalid path")
            ELSE IF Entry(tree, next).kind # "link"
                 THEN walk(tree, next, Tail(rest))
            ELSE IF \A e \in tree : e.path # Entry(tree, next).target
                 THEN Err("Invalid path")
                 ELSE walk(tree, Entry(tree, next).target, Tail(rest))

canonicalize(tree, path) == walk(tree, <<>>, path)

\* The join checked without canonicalize.
safe_resolve_lexical(tree, rel) ==
    IF rel = NoRel THEN Ok(upload_dir)
    ELSE IF ~canonicalize(tree, join(upload_dir, rel)).ok THEN Err("Invalid path")
    ELSE IF ~starts_with(join(upload_dir, rel), upload_dir)
         THEN Err("Path traversal not allowed")
         ELSE Ok(join(upload_dir, rel))

\* IndexManager::safe_resolve
safe_resolve(tree, rel) ==
    IF rel = NoRel THEN Ok(upload_dir)
    ELSE LET canonical == canonicalize(tree, join(upload_dir, rel))
             base == canonicalize(tree, upload_dir)
         IN IF ~canonical.ok THEN Err("Invalid path")
            ELSE IF ~base.ok THEN Err("Upload dir error")
            ELSE IF ~starts_with(canonical.path, base.path)
                 THEN Err("Path traversal not allowed")
                 ELSE Ok(canonical.path)

\* relative.contains(".."): the two dots anywhere in the string.
contains_dotdot(rel) == \E i \in 1..Len(rel.comps) : rel.comps[i] \in {"..", "x..y"}

\* The check for ".." left out.
safe_resolve_new_unchecked(tree, rel) ==
    IF rel = NoRel THEN Err("Path cannot be empty")
    ELSE Ok(join(upload_dir, rel))

\* IndexManager::safe_resolve_new
safe_resolve_new(tree, rel) ==
    IF rel = NoRel THEN Err("Path cannot be empty")
    ELSE IF contains_dotdot(rel) THEN Err("Path traversal not allowed")
    ELSE LET target == join(upload_dir, rel)
             parent == SubSeq(target, 1, Len(target) - 1)
         IN IF target = <<>> \/ parent = upload_dir THEN Ok(target)
            ELSE LET parent_canonical == canonicalize(tree, parent)
                     base == canonicalize(tree, upload_dir)
                 IN IF ~parent_canonical.ok
                    THEN Err("Parent directory does not exist")
                    ELSE IF ~base.ok THEN Err("Upload dir error")
                    ELSE IF ~starts_with(parent_canonical.path, base.path)
                         THEN Err("Path traversal not allowed")
                         ELSE Ok(target)

\* The request path has a ".." component and leads, links followed, to an
\* existing file or directory that is not below the upload directory.
ResolvesOutside(tree, rel) ==
    /\ \E i \in 1..Len(rel.comps) : rel.comps[i] = ".."
    /\ canonicalize(tree, join(upload_dir, rel)).ok
    /\ ~starts_with(canonicalize(tree, join(upload_dir, rel)).path, upload_dir)

\* What is kept of a request: whether its path was empty, held "..", led
\* out of the upload directory.
About(tree, rel) == [empty |-> rel = NoRel, dotdot |-> contains_dotdot(rel),
                     outside |-> ResolvesOutside(tree, rel)]

NoAnswer == [op |-> "none", rel |-> About({}, NoRel), code |-> 0, msg |-> "none",
             path |-> <<>>, dir |-> <<>>]

InitPathIdle == paths = [tree |-> {}, resp |-> NoAnswer, n |-> 0]
InitPaths == paths = [tree |-> InitTree, resp |-> NoAnswer, n |-> 0]

\* Path::exists and Path::is_dir: the path resolves, links followed.
exists(tree, path) == canonicalize(tree, path).ok
is_dir(tree, path) ==
    /\ canonicalize(tree, path).ok
    /\ Entry(tree, canonicalize(tree, path).path).kind = "dir"

\* The request is answered; tree is what the handler left on the disk.
Answered(op, rel, tree, code, msg, path) ==
    paths' = [tree |-> tree, n |-> paths.n + 1,
              resp |-> [op |-> op, rel |-> About(paths.tree, rel), code |-> code,
                        msg |-> msg, path |-> path, dir |-> <<>>]]

\* rag_list_files_handler with list_dir_entries: the entries of the
\* directory the path resolves to.
rag_list_files_handler(rel) ==
    /\ paths.n < MaxPathOps
    /\ LET dir == safe_resolve(paths.tree, rel)
       IN IF ~dir.ok THEN Answered("list", rel, paths.tree, 400, dir.err, <<>>)
          ELSE IF ~is_dir(paths.tree, dir.path)
          THEN Answered("list", rel, paths.tree, 400, "Not a directory", <<>>)
          ELSE Answered("list", rel, paths.tree, 200, "none", dir.path)
    /\ UNCHANGED <<mask, chunker, idxVars, verVars, chatVars>>

\* The handlers of mkdir and of create file: safe_resolve_new, 409 when
\* the target exists, then create_dir_all or fs::write, which act on the
\* directory the parent resolves to.
Create(op, kind, rel) ==
    /\ paths.n < MaxPathOps
    /\ LET target == safe_resolve_new(paths.tree, rel)
           parent == SubSeq(target.path, 1, Len(target.path) - 1)
           made == Append(canonicalize(paths.tree, parent).path,
                          target.path[Len(target.path)])
       IN IF ~target.ok
          THEN Answered(op, rel, paths.tree, 400, target.err, <<>>)
          ELSE IF exists(paths.tree, target.path)
          THEN Answered(op, rel, paths.tree, 409, "Already exists", <<>>)
          ELSE IF ~is_dir(paths.tree, parent)
          THEN Answered(op, rel, paths.tree, 500, "Failed to create", <<>>)
          ELSE Answered(op, rel, paths.tree \cup { Node(made, kind, <<>>) },
                        200, "created", made)
    /\ UNCHANGED <<mask, chunker, idxVars, verVars, chatVars>>

rag_mkdir_handler(rel) == Create("mkdir", "dir", rel)
rag_create_file(rel) == Create("create", "file", rel)

NextPaths ==
    \E rel \in Rels :
        \/ rag_list_files_handler(rel)
        \/ rag_mkdir_handler(rel)
        \/ rag_create_file(rel)

\* The longest file name of a multipart field, in components.
MaxNameLen == 2

\* The file names a client sends in a multipart field: any string, with
\* ".." segments or absolute.
FileNames ==
    [abs : BOOLEAN,
     comps : UNION { [1..n -> {"..", "etc", "n", "f.txt", "f.exe"}] : n \in 1..MaxNameLen }]

\* Path::extension of the file name: that of its last component.
extension(name) ==
    CASE name.comps[Len(name.comps)] = "f.txt" -> "txt"
      [] name.comps[Len(name.comps)] = "f.exe" -> "exe"
      [] OTHER -> ""

\* rag_upload_handler for one multipart field: the directory of the path
\* parameter is resolved, the extension of the file name is validated, and
\* the bytes are written to upload_dir.join(file_name); dir keeps the
\* directory resolved and path the file written.
rag_upload_file(rel, name) ==
    /\ paths.n < MaxPathOps
    /\ LET dir == safe_resolve(paths.tree, rel)
           dest == join(dir.path, name)
           parent == SubSeq(dest, 1, Len(dest) - 1)
           made == Append(canonicalize(paths.tree, parent).path, dest[Len(dest)])
       IN IF ~dir.ok
          THEN Answered("upload", rel, paths.tree, 400, dir.err, <<>>)
          ELSE IF from_extension(extension(name)) = "None"
          THEN Answered("upload", rel, paths.tree, 400, "Unsupported file type", <<>>)
          ELSE IF ~is_dir(paths.tree, parent) \/ is_dir(paths.tree, dest)
          THEN Answered("upload", rel, paths.tree, 500, "Failed to save file", <<>>)
          ELSE paths' = [tree |-> paths.tree \cup { Node(made, "file", <<>>) },
                         n |-> paths.n + 1,
                         resp |-> [op |-> "upload", rel |-> About(paths.tree, rel),
                                   code |-> 200, msg |-> "uploaded",
                                   path |-> made, dir |-> dir.path]]
    /\ UNCHANGED <<mask, chunker, idxVars, verVars, chatVars>>

\* Uploads into the upload directory and the directories made in it.
NextUpload ==
    \/ \E rel \in { r \in Rels : Len(r.comps) <= 1 } :
          \E name \in FileNames : rag_upload_file(rel, name)
    \/ \E rel \in { r \in Rels : Len(r.comps) <= 1 } : rag_mkdir_handler(rel)

-----------------------------------------------------------------------------
(***************************************************************************)
(* chunk_text (indexer/chunker.rs)                                         *)
(*                                                                         *)
(* A text is the sequence of its bytes; positions are byte offsets from 0. *)
(* The character "。" takes three bytes, every other one a single byte.    *)
(***************************************************************************)

\* The longest text in characters, the largest max_chunk_size and overlap.
MaxChars == 4
MaxSize == 3
MaxOverlap == 3
\* More iterations than any call that ends needs: one per byte.
MaxIters == 3 * MaxChars + 1

Chars == {"a", " ", "\n", ".", "maru"}
Whitespace == {" ", "\n"}
encode(c) == IF c = "maru" THEN <<"e3", "80", "82">> ELSE <<c>>
RECURSIVE as_bytes(_)
as_bytes(chars) ==
    IF chars = <<>> THEN <<>> ELSE encode(Head(chars)) \o as_bytes(Tail(chars))

\* str::is_char_boundary
is_char_boundary(text, pos) ==
    pos = 0 \/ pos = Len(text) \/ (pos < Len(text) /\ text[pos + 1] \notin {"80", "82"})

ceil_char_boundary(text, byte_pos) ==
    IF byte_pos >= Len(text) THEN Len(text)
    ELSE CHOOSE pos \in byte_pos..Len(text) :
           /\ pos = Len(text) \/ is_char_boundary(text, pos)
           /\ \A q \in byte_pos..(pos - 1) : ~is_char_boundary(text, q)

floor_char_boundary(text, byte_pos) ==
    IF byte_pos >= Len(text) THEN Len(text)
    ELSE CHOOSE pos \in 0..byte_pos :
           /\ pos = 0 \/ is_char_boundary(text, pos)
           /\ \A q \in (pos + 1)..byte_pos : ~is_char_boundary(text, q)

\* str::trim
RECURSIVE trim(_)
trim(text) ==
    IF text = <<>> THEN text
    ELSE IF Head(text) \in Whitespace THEN trim(Tail(text))
    ELSE IF text[Len(text)] \in Whitespace THEN trim(SubSeq(text, 1, Len(text) - 1))
    ELSE text

\* text[from..to]
slice(text, from, to) == SubSeq(text, from + 1, to)

\* str::rfind: the offset of the last occurrence, -1 for None.
rfind(segment, pat) ==
    LET at == { i \in 0..(Len(segment) - Len(pat)) :
                  slice(segment, i, i + Len(pat)) = pat }
    IN IF at = {} THEN -1 ELSE CHOOSE i \in at : \A j \in at : j <= i

\* The sentence ends looked for, in this order ("。" stands for the three
\* wide marks, ". " for the three marks followed by a space).
Sentinels == << encode("maru"), <<".", " ">> >>

RECURSIVE after_sentinel(_, _, _)
after_sentinel(segment, start, i) ==
    IF i > Len(Sentinels) THEN -1
    ELSE IF rfind(segment, Sentinels[i]) >= 0
         THEN start + rfind(segment, Sentinels[i]) + Len(Sentinels[i])
         ELSE after_sentinel(segment, start, i + 1)

find_break_point(text, start, max_end) ==
    LET segment == slice(text, start, max_end)
    IN IF rfind(segment, <<"\n", "\n">>) >= 0
       THEN start + rfind(segment, <<"\n", "\n">>) + 2
       ELSE IF rfind(segment, <<"\n">>) >= 0
       THEN start + rfind(segment, <<"\n">>) + 1
       ELSE IF after_sentinel(segment, start, 1) >= 0
       THEN after_sentinel(segment, start, 1)
       ELSE IF rfind(segment, <<" ">>) >= 0
       THEN start + rfind(segment, <<" ">>) + 1
       ELSE max_end

Min(a, b) == IF a <= b THEN a ELSE b

NewChunker == [pc |-> "idle", text |-> <<>>, max_chunk_size |-> 0, overlap |-> 0,
               start |-> 0, chunks |-> <<>>, iters |-> 0]
InitChunkIdle == chunker = NewChunker

\* chunk_text is called with a text, a size and an overlap.
InitChunker ==
    chunker \in { [NewChunker EXCEPT !.pc = "call", !.text = as_bytes(t),
                                     !.max_chunk_size = m, !.overlap = o] :
                    t \in UNION { [1..n -> Chars] : n \in 0..MaxChars },
                    m \in 0..MaxSize, o \in 0..MaxOverlap }

\* The text trimmed and the two early returns.
ChunkTextEnter ==
    /\ chunker.pc = "call"
    /\ LET text == trim(chunker.text)
       IN chunker' =
            IF text = <<>>
            THEN [chunker EXCEPT !.pc = "done", !.text = text]
            ELSE IF Len(text) <= chunker.max_chunk_size
            THEN [chunker EXCEPT !.pc = "done", !.text = text, !.chunks = <<text>>]
            ELSE [chunker EXCEPT !.pc = "loop", !.text = text]
    /\ UNCHANGED <<mask, paths, idxVars, verVars, chatVars>>

\* One iteration of the loop.
ChunkTextIterate ==
    /\ chunker.pc = "loop"
    /\ chunker.start < Len(chunker.text)
    /\ chunker.iters < MaxIters
    /\ LET text == chunker.text
           start == chunker.start
           end == ceil_char_boundary(text,
                      Min(start + chunker.max_chunk_size, Len(text)))
           actual_end == IF end < Len(text)
                         THEN find_break_point(text, start, end) ELSE end
           chunk == trim(slice(text, start, actual_end))
           next_start == IF actual_end > chunker.overlap
                         THEN floor_char_boundary(text, actual_end - chunker.overlap)
                         ELSE actual_end
       IN chunker' = [chunker EXCEPT
              !.chunks = IF chunk # <<>> THEN Append(@, chunk) ELSE @,
              !.start = IF next_start <= start THEN actual_end ELSE next_start,
              !.iters = @ + 1]
    /\ UNCHANGED <<mask, paths, idxVars, verVars, chatVars>>

\* The loop condition fails: the chunks are returned.
ChunkTextReturn ==
    /\ chunker.pc = "loop"
    /\ chunker.start >= Len(chunker.text)
    /\ chunker' = [chunker EXCEPT !.pc = "done"]
    /\ UNCHANGED <<mask, paths, idxVars, verVars, chatVars>>

NextChunker == ChunkTextEnter \/ ChunkTextIterate \/ ChunkTextReturn
InitFnIdle == InitMaskIdle /\ InitPathIdle /\ InitChunkIdle

InitChat == InitIdxIdle /\ InitVerIdle /\ InitChatIdle /\ InitFnIdle

\* Two chat requests handled concurrently.
SpecChat == InitChat /\ [][NextChat]_vars

Init == InitIdx /\ InitVerIdle /\ InitChatIdle /\ InitFnIdle

\* Every text masked by a detector and unmasked again.
InitMaskCalls ==
    /\ InitIdxIdle /\ InitVerIdle /\ InitChatIdle
    /\ InitMask /\ InitPathIdle /\ InitChunkIdle

SpecMask == InitMaskCalls /\ [][NextMask]_vars

\* The handlers that take a path, called with every path.
InitPathCalls ==
    /\ InitIdxIdle /\ InitVerIdle /\ InitChatIdle
    /\ InitMaskIdle /\ InitPaths /\ InitChunkIdle

SpecPaths == InitPathCalls /\ [][NextPaths]_vars

SpecUpload == InitPathCalls /\ [][NextUpload]_vars

\* chunk_text called with every text, size and overlap.
InitChunkCalls ==
    /\ InitIdxIdle /\ InitVerIdle /\ InitChatIdle
    /\ InitMaskIdle /\ InitPathIdle /\ InitChunker

SpecChunker == InitChunkCalls /\ [][NextChunker]_vars
Next == NextIdx
Spec == Init /\ [][Next]_vars

\* The file handlers called within one second, every file operation
\* succeeding.
NextVer ==
    \/ \E c \in UploadContents : rag_upload_handler(c, "none")
    \/ \E version \in Requested : rag_file_rollback_handler(version, "none")
    \/ rag_delete_file_handler
    \/ \E c \in UploadContents : rag_create_file_handler(c)

InitVer == InitIdxIdle /\ InitStore(0..MaxInitSaves) /\ InitChatIdle /\ InitFnIdle

SpecVer == InitVer /\ [][NextVer]_vars

\* The number of handler calls made when file operations may fail.
MaxFaultOps == 2

\* The file handlers, a file operation of save_version or of the rollback
\* possibly failing.
NextVerIO ==
    \/ /\ ops < MaxFaultOps
       /\ \E c \in UploadContents, fault \in SaveFaults : rag_upload_handler(c, fault)
    \/ /\ ops < MaxFaultOps
       /\ \E version \in Requested, fault \in RollbackFaults :
             rag_file_rollback_handler(version, fault)
    \/ ops < MaxFaultOps /\ rag_delete_file_handler
    \/ /\ ops < MaxFaultOps
       /\ \E c \in UploadContents : rag_create_file_handler(c)
    \/ Tick

\* F absent, new, one version below the cap, or at the cap.
InitVerIO ==
    /\ InitIdxIdle
    /\ InitStore({0, MAX_VERSIONS - 1, MAX_VERSIONS})
    /\ InitChatIdle
    /\ InitFnIdle

SpecVerIO == InitVerIO /\ [][NextVerIO]_vars

\* An upload of F and a rollback of F handled at the same time: the handlers
\* run on different worker threads and take no lock, so their file
\* operations interleave.
NextSaves ==
    \/ \E c \in Savers :
          \/ HandlerBegin(c)
          \/ SaveRead(c)
          \/ SaveEvict(c)
          \/ SaveCopy(c)
          \/ SaveWriteMeta(c)
          \/ HandlerWrite(c)
    \/ Tick

\* F absent, with one version, or with a full history.
InitSaves ==
    /\ InitIdxIdle
    /\ InitStore({1, MAX_VERSIONS})
    /\ InitChatIdle
    /\ InitFnIdle

SpecSaves == InitSaves /\ [][NextSaves]_vars

\* The passes of the scheduler over an upload directory that holds version
\* stores, while save_version writes further files into them.
NextWalk ==
    \/ SchedWake
    \/ SchedReadInterval
    \/ PassSteps(Sched)
    \/ \E f \in VersionPaths : WriteFile(f, "t1")

InitWalk ==
    /\ status = NewStatus
    /\ disk \in { d \in [Paths \cup VersionPaths -> {"none", "bad", "t1"}] :
                    /\ \A f \in Paths \ {PathA} : d[f] # "bad"
                    /\ \A f \in VersionPaths : d[f] # "bad" }
    /\ points \in SUBSET DocIds
    /\ pc = [p \in Procs |-> IF p = Sched THEN "sleep" ELSE "idle"]
    /\ loc = [p \in Procs |-> IF p = Sched
                                  THEN [IdleLoc EXCEPT !.sleep = FIRST_SLEEP]
                                  ELSE IdleLoc]
    /\ clock = 1
    /\ envOps = 0
    /\ quiet = "no"
    /\ lock = "free"
    /\ seen = NoView
    /\ InitVerIdle /\ InitChatIdle /\ InitFnIdle

SpecWalk == InitWalk /\ [][NextWalk]_vars

InitConc == InitIdxConc /\ InitVerIdle /\ InitChatIdle /\ InitFnIdle

SpecConc == InitConc /\ [][NextConc]_vars

\* A task that can take a step of its run_index call takes it: the runtime
\* polls every spawned task, the status mutex is fair, and every call into the
\* embedding model and the vector store returns.
InitFair ==
    /\ Init
    /\ disk = [f \in Paths |-> IF f = PathA THEN "bad" ELSE "t1"]
    /\ points = DocIds

\* The calls of the scheduler and of the manual trigger (the rollback
\* trigger spawns the same call and differs in its answer only).
NextFair ==
    \/ SchedWake
    \/ SchedReadInterval
    \/ \E p \in Triggers : ManualTrigger(p)
    \/ \E p \in Triggers : TaskEnd(p)
    \/ \E p \in Procs : PassSteps(p)

FairConc == InitFair /\ [][NextFair]_vars
            /\ \A p \in Procs : WF_vars(PassSteps(p))

\* The status and configuration endpoints called at any moment of the
\* run_index calls of the scheduler and of one manual trigger.
NextStatus ==
    \/ SchedWake
    \/ SchedReadInterval
    \/ ManualTrigger("t1")
    \/ TaskEnd("t1")
    \/ \E p \in {Sched, "t1"} : PassSteps(p)
    \/ rag_status_handler
    \/ \E minutes \in Intervals : rag_config_handler(minutes)

InitStatusCalls == InitFair

SpecStatus == InitStatusCalls /\ [][NextStatus]_vars

-----------------------------------------------------------------------------
(***************************************************************************)
(* Claims on the index manager                                             *)
(***************************************************************************)

\* Between setting is_indexing and resetting it.
InSection(p) == pc[p] \in BodyPcs \cup {"finish"}

\* A call that takes its first critical section while is_indexing is set
\* returns at once, and a call that finds it clear enters the pass.
StartStep(p) ==
    (pc[p] = "ri_start" /\ pc'[p] # "ri_start") =>
        IF status.is_indexing
        THEN /\ pc'[p] = "returned"
             /\ loc'[p].ret = "AlreadyIndexing"
             /\ status' = status
             /\ points' = points
        ELSE /\ pc'[p] = "walk"
             /\ status'.is_indexing

\* C1: single flight.  Under every interleaving of the run_index calls of the
\* scheduler, the manual trigger and the rollback trigger, at most one call
\* is between setting and resetting is_indexing, is_indexing is set while a
\* pass body runs, and a call that starts while it is set fails with
\* "Indexing already in progress" without executing any part of a pass.
C1_SingleFlight ==
    /\ [](/\ Cardinality({ p \in Procs : InSection(p) }) <= 1
          /\ \A p \in Procs : InSection(p) => status.is_indexing)
    /\ [][\A p \in Procs : StartStep(p)]_vars

\* One call runs the pass body while another has been refused.
C1_Witness ==
    \E p, q \in Procs :
        /\ p # q
        /\ pc[p] \in {"file", "scroll"}
        /\ pc[q] = "returned"
        /\ loc[q].ret = "AlreadyIndexing"

\* C2: every call that set is_indexing resets it, whether the pass body
\* returned or panicked: is_indexing is set only while some call is between
\* setting and resetting it, and whenever it is set it is later clear.
C2_IndexingResets ==
    /\ [](status.is_indexing => \E p \in Procs : InSection(p))
    /\ (status.is_indexing ~> ~status.is_indexing)

\* A pass panicked and is_indexing is clear again.
C2_Witness ==
    /\ ~status.is_indexing
    /\ status.last_error = "panic"
    /\ \E p \in Procs : pc[p] = "ret"

\* The files that were absent when pass p walked the directory and have
\* points in the collection.
LeftOver(p) ==
    { f \in Paths : /\ file_id(f) \notin loc[p].existing
                    /\ \E id \in points : split_first(id) = file_id(f) }

\* C3 as claimed: when a pass has done its cleanup, no point of a file that
\* was absent from the disk at its walk remains.
C3_Original ==
    \A p \in Procs : pc[p] = "update" => LeftOver(p) = {}

\* C3: when a pass has done its cleanup and the scroll and the delete of
\* the cleanup succeeded, no point whose prefix before the first '_' is the
\* hash of a file absent from the disk at its walk remains, whatever the
\* collection held before and whether or not other files failed.
C3_StaleCleanup ==
    \A p \in Procs : (pc[p] = "update" /\ loc[p].cleaned) => LeftOver(p) = {}

\* The cleanup removed the points of an absent file in a pass in which
\* another file failed.
C3_Witness ==
    \E p \in Procs :
        /\ pc[p] = "update"
        /\ loc[p].cleaned
        /\ loc[p].failed_files # <<>>
        /\ \E f \in Paths : /\ disk[f] = "none"
                              /\ file_id(f) \notin loc[p].existing
                              /\ \E id \in loc[p].stale : split_first(id) = file_id(f)

\* The step that ends the body of pass p leaves the totals and the point
\* ids as the pass before left them.
SameAsBefore(p) ==
    /\ status'.total_files = status.total_files
    /\ status'.total_chunks = status.total_chunks
    /\ points' = loc[p].ids0

-----------------------------------------------------------------------------
(***************************************************************************)
(* Claims on the version store                                             *)
(***************************************************************************)

ListedVersions == { meta[i].version : i \in 1..Len(meta) }

\* The step is a call of the handler op.
Called(op) == ops' = ops + 1 /\ vres'.op = op

\* C5: version-history invariant.  After any sequence of save_version and
\* rollback operations meta lists at most MAX_VERSIONS entries, the listed
\* version numbers are strictly increasing, and every listed version has a
\* payload file.
C5_HistoryInvariant ==
    /\ Len(meta) <= MAX_VERSIONS
    /\ \A i \in 1..(Len(meta) - 1) : meta[i].version < meta[i + 1].version
    /\ \A v \in ListedVersions : find_version_file(payload, v) # {}

\* A rollback succeeded on a full history whose oldest entries were evicted.
C5_Witness ==
    /\ vres.op = "rollback"
    /\ vres.code = 200
    /\ Len(meta) = MAX_VERSIONS
    /\ meta[1].version > 1

\* C6: versioning cap.  After k successful save_version calls on a file
\* that had no history, meta lists exactly the versions
\* max(1, k - 9) .. k in order, the payload files are exactly one per listed
\* version, and each holds the content that was saved under its number.
C6_Cap ==
    LET k == Len(hist)
        lo == IF k - (MAX_VERSIONS - 1) > 1 THEN k - (MAX_VERSIONS - 1) ELSE 1
    IN /\ Len(meta) = k - lo + 1
       /\ \A i \in 1..Len(meta) : meta[i].version = lo + i - 1
       /\ { f.version : f \in payload } = lo..k
       /\ Cardinality(payload) = Len(meta)
       /\ \A f \in payload : f.content = hist[f.version]

\* Fifteen saves: ten entries, versions 6 to 15, ten payload files.
C6_Witness ==
    /\ Len(hist) = 15
    /\ Len(meta) = 10
    /\ meta[1].version = 6
    /\ meta[10].version = 15
    /\ Cardinality(payload) = 10

\* C7 as claimed: a rollback of the existing file F to any version listed in
\* its meta, the oldest included, at any history length up to MAX_VERSIONS,
\* succeeds and leaves in the live file the content saved as that version.
C7_RollbackRestores ==
    [][(Called("rollback") /\ live # Absent /\ vres'.n \in ListedVersions)
         => (vres'.code = 200 /\ live' = hist[vres'.n])]_vars

\* A rollback to a listed version failed after its auto-save was made, and
\* the live file is as it was.
C7_Witness ==
    /\ vres.op = "rollback"
    /\ vres.code = 500
    /\ vres.saved # 0
    /\ live = vres.before
    /\ vres.n \notin ListedVersions

\* C8: rollback reversibility.  When a rollback succeeded and auto-saved the
\* content before it as version M, the rollback to M that follows succeeds
\* and leaves the live file with the content it had before the first one.
C8_Reversible ==
    [][(Called("rollback") /\ vres'.undo)
         => (vres'.code = 200 /\ live' = vres.before)]_vars

\* The second rollback of such a pair was made on a full history and
\* changed the live file.
C8_Witness ==
    /\ vres.op = "rollback"
    /\ vres.undo
    /\ vres.code = 200
    /\ Len(meta) = MAX_VERSIONS
    /\ live # vres.before

\* C9 as claimed: whenever an upload overwrites the existing file F, the
\* content F had is the payload of the newest entry of meta, saved by this
\* upload, when the new bytes are written.
C9_UploadKeepsHistory ==
    [][(Called("upload") /\ live # Absent)
         => /\ meta' # <<>>
            /\ LET e == meta'[Len(meta')]
               IN /\ e.version = vres'.saved
                  /\ e.version \notin ListedVersions
                  /\ e.comment = UploadComment
                  /\ find_version_file(payload', e.version) # {}
                  /\ \A f \in find_version_file(payload', e.version) :
                        f.content = live]_vars

\* An upload overwrote F after its save_version failed: the content F had
\* is in no payload file.
C9_Witness ==
    /\ vres.op = "upload"
    /\ vres.before # Absent
    /\ vres.saved = 0
    /\ live # vres.before
    /\ \A f \in payload : f.content # vres.before

-----------------------------------------------------------------------------
(***************************************************************************)
(* Claims on the chat pipeline                                             *)
(***************************************************************************)

Pipeline == <<"rag", "mask", "upstream", "unmask", "sanitize", "log", "respond">>

Done(r, n) == Len(chat[r].trace) >= n

\* C10: within one chat request the steps happen in the order RAG
\* retrieval, PII masking, upstream call, PII unmasking, output sanitizing,
\* audit-log append, response; each step works on what the step before it
\* produced, and the mappings used by the unmasking are the ones the masking
\* of the same request produced, whatever another request does in between.
C10_PipelineOrder ==
    \A r \in ChatReqs :
      LET c == chat[r]
          u == last_user(c.messages)
      IN /\ c.trace = SubSeq(Pipeline, 1, Len(c.trace))
         /\ c.code = 200 <=> Done(r, 7)
         /\ Done(r, 1) => c.rag_context \in RagContexts
         /\ Done(r, 2) => c.messages[u].content = c.masked_content
         /\ Done(r, 3) => c.sent[u].content = c.masked_content
         /\ Done(r, 4) => c.used_mappings = c.mappings
         /\ Done(r, 5) =>
               FirstContent(c.final_response)
                 \in { sanitize(unmask(FirstContent(c.llm_response), order)) :
                        order \in Orders(c.mappings) }
         /\ Done(r, 6) => LogEntry(r) \in prompt_logs
         /\ (\E e \in prompt_logs : e.id = r) => Done(r, 6)

\* Two requests with different mappings interleaved and both answered, one
\* with a real value restored and a command removed.
C10_Witness ==
    \E r, q \in ChatReqs :
        /\ chat[r].code = 200
        /\ chat[q].code = 200
        /\ chat[r].mappings # {}
        /\ chat[q].mappings # {}
        /\ chat[r].mappings # chat[q].mappings
        /\ contains(FirstContent(chat[r].final_response), Email)
        /\ contains(FirstContent(chat[r].final_response), REDACTED_NOTICE)

\* The audit rows of request r.
Rows(r) == { e \in prompt_logs : e.id = r }

\* C11: a request answered 200 has exactly one audit row, written before
\* the answer, with an empty mappings object when nothing was masked; a
\* request that failed at any step has none; and a row exists only for a
\* request that is answered 200 or is about to be.
C11_AuditIffSuccess ==
    \A r \in ChatReqs :
        /\ chat[r].code = 200 =>
              /\ Cardinality(Rows(r)) = 1
              /\ \A e \in Rows(r) : e.pii_mappings = chat[r].mappings
        /\ (chat[r].pc = "done" /\ chat[r].code # 200) => Rows(r) = {}
        /\ Rows(r) # {} => /\ chat[r].pc \in {"respond", "done"}
                            /\ chat[r].code \in {0, 200}

\* One request answered 200 with nothing masked and its row, while the
\* other failed at the audit log and has no row.
C11_Witness ==
    \E r, q \in ChatReqs :
        /\ chat[r].code = 200
        /\ chat[r].mappings = {}
        /\ \E e \in Rows(r) : e.pii_mappings = {}
        /\ chat[q].code = 500
        /\ chat[q].trace = SubSeq(Pipeline, 1, 5)
        /\ Rows(q) = {}

\* C12: when the upstream call fails the request is answered 502, and a
\* request answered 502 was neither unmasked nor sanitized and has no audit
\* row.
C12_UpstreamFailure ==
    /\ [](\A r \in ChatReqs :
            chat[r].code = 502 =>
              /\ chat[r].pc = "done"
              /\ chat[r].trace = <<"rag", "mask">>
              /\ chat[r].llm_response = NewCall.llm_response
              /\ chat[r].final_response = NewCall.final_response
              /\ chat[r].used_mappings = {}
              /\ Rows(r) = {})
    /\ [][\A r \in ChatReqs :
            (chat[r].pc = "upstream" /\ chat'[r].pc = "done") =>
              (chat'[r].code = 502 /\ prompt_logs' = prompt_logs)]_vars

\* The upstream failed for a request whose text had been masked.
C12_Witness ==
    \E r \in ChatReqs :
        /\ chat[r].code = 502
        /\ chat[r].mappings # {}
        /\ chat[r].sent # <<>>

\* C13: a request without any message of role "user" is answered 400 and
\* nothing else happens for it: no retrieval, no detect_and_mask call (the
\* counter of the detector is not advanced by it), no upstream call and no
\* audit row.
C13_NoUserMessage ==
    /\ [](\A r \in ChatReqs :
            (/\ chat[r].messages # <<>>
             /\ \A i \in 1..Len(chat[r].messages) : chat[r].messages[i].role # "user")
            => /\ chat[r].pc = "done"
               /\ chat[r].code = 400
               /\ chat[r].trace = <<>>
               /\ chat[r].sent = <<>>
               /\ chat[r].mappings = {}
               /\ Rows(r) = {})
    /\ [][\A r \in ChatReqs :
            (chat[r].pc = "new" /\ chat'[r].code = 400) =>
              (detector' = detector /\ prompt_logs' = prompt_logs)]_vars

\* A request without a user message was answered 400 while the other
\* request was served.
C13_Witness ==
    \E r, q \in ChatReqs :
        /\ chat[r].code = 400
        /\ chat[r].messages # <<>>
        /\ chat[q].code = 200

\* C14: no real value recorded in the mappings of a request occurs in any
\* message of the request sent to the upstream.
C14_NoPiiLeaves ==
    \A r \in ChatReqs :
        chat[r].sent # <<>> =>
          \A m \in chat[r].mappings : \A i \in 1..Len(chat[r].sent) :
              ~contains(chat[r].sent[i].content, m.real)

\* A request was sent whose last user message is masked while an earlier
\* message of it still holds the real value.
C14_Witness ==
    \E r \in ChatReqs :
        LET c == chat[r]
            u == last_user(c.sent)
        IN /\ c.sent # <<>>
           /\ c.rag_context = <<>>
           /\ [fake |-> "fake1@example.jp", real |-> Email] \in c.mappings
           /\ ~contains(c.sent[u].content, Email)
           /\ \E i \in 1..(u - 1) : contains(c.sent[i].content, Email)

\* The matches of the patterns in a text.
Matches(text) == find_iter(EMAIL_PATTERN, text) \o find_iter(ADDRESS_PATTERN, text)
DistinctMatches(text) ==
    \A i, j \in 1..Len(Matches(text)) : i # j => Matches(text)[i] # Matches(text)[j]

\* C15: for a text whose matches are distinct strings, every value that
\* detect_and_mask put in the masked text is a key of the mappings, and
\* unmask of the masked text gives the text back, in whatever order unmask
\* iterates the map.
C15_RoundTrip ==
    (mask.pc = "restored" /\ DistinctMatches(mask.text)) =>
        /\ \A i \in 1..Len(mask.text) :
              mask.masked[i] # mask.text[i] =>
                 \E m \in mask.mappings : m.fake = mask.masked[i]
        /\ mask.restored = mask.text

\* A text with an e-mail address and an address was masked and unmasked, and
\* the round trip did not give the text back.
C15_Witness ==
    /\ mask.pc = "restored"
    /\ DistinctMatches(mask.text)
    /\ Cardinality(mask.mappings) = 2
    /\ \E i, j \in 1..Len(mask.text) :
          mask.text[i] \in EMAIL_PATTERN /\ mask.text[j] \in ADDRESS_PATTERN
    /\ mask.restored # mask.text

\* C16: the path safe_resolve returns is the upload directory or an
\* existing file or directory below it, links followed; and a request whose
\* path leads out of the upload directory through ".." is refused.
C16_SafeResolve ==
    paths.resp.op = "list" =>
        /\ paths.resp.code = 200 =>
              /\ canonicalize(paths.tree, paths.resp.path).ok
              /\ starts_with(canonicalize(paths.tree, paths.resp.path).path,
                             upload_dir)
        /\ paths.resp.rel.outside => paths.resp.code = 400

\* A path with ".." that stays in the upload directory was resolved to a
\* directory made by an earlier request.
C16_Witness ==
    /\ paths.resp.op = "list"
    /\ paths.resp.code = 200
    /\ paths.resp.rel.dotdot
    /\ paths.resp.path = upload_dir \o <<"n">>

\* C17: a mkdir or create-file request whose path is empty or contains ".."
\* is answered 400 (with "Path traversal not allowed" for "..") and leaves
\* every directory and file as it was.
C17_RejectedCreate ==
    [][(/\ paths'.n # paths.n
        /\ paths'.resp.op \in {"mkdir", "create"}
        /\ paths'.resp.rel.empty \/ paths'.resp.rel.dotdot)
       => /\ paths'.tree = paths.tree
          /\ paths'.resp.code = 400
          /\ ~paths'.resp.rel.empty =>
                paths'.resp.msg = "Path traversal not allowed"]_vars

\* A mkdir with ".." in its path was refused after a directory had been
\* made by an accepted request.
C17_Witness ==
    /\ paths.resp.op = "mkdir"
    /\ paths.resp.code = 400
    /\ paths.resp.msg = "Path traversal not allowed"
    /\ paths.resp.rel.dotdot
    /\ paths.tree # InitTree

\* The positions of a spawned run_index call.
Spawned == {"ri_start", "finish", "ret", "returned"} \cup BodyPcs

\* C18: the manual trigger handled while is_indexing is set answers 409 and
\* spawns nothing, and handled while it is clear answers 202 and spawns one
\* run_index call; a handler that answered 409 never runs a step of
\* run_index.
C18_ManualTrigger ==
    /\ [][\A p \in Triggers :
            (pc[p] = "idle" /\ loc'[p].http \in {202, 409}) =>
              IF status.is_indexing
              THEN loc'[p].http = 409 /\ pc'[p] = "refused" /\ status' = status
              ELSE loc'[p].http = 202 /\ pc'[p] = "ri_start"]_vars
    /\ [](\A p \in Triggers :
            /\ loc[p].http = 409 => pc[p] = "refused"
            /\ loc[p].http = 202 => pc[p] \in Spawned)

\* One manual trigger was refused while the pass spawned by another one
\* is running.
C18_Witness ==
    \E p, q \in Triggers :
        /\ loc[p].http = 409
        /\ pc[p] = "refused"
        /\ loc[q].http = 202
        /\ InBody(q)

\* C19: in every iteration of the loop of chunk_text the cursor start
\* strictly increases, for every text, max_chunk_size and overlap, so the
\* loop ends.
C19_Progress ==
    [][(chunker.pc = "loop" /\ chunker'.iters = chunker.iters + 1)
         => chunker'.start > chunker.start]_vars

\* A call with an overlap not smaller than the chunk size has returned
\* several chunks, one of them cut right after the cursor.
C19_Witness ==
    /\ chunker.pc = "done"
    /\ chunker.max_chunk_size >= 1
    /\ chunker.overlap >= chunker.max_chunk_size
    /\ Len(chunker.chunks) >= 3
    /\ \E i \in 1..Len(chunker.chunks) : Len(chunker.chunks[i]) = 1

\* C20: a file whose text is blank is counted as successful with no chunk
\* and no point is stored for it; and once the pass that follows has done
\* its cleanup, no point stored earlier for that file remains.
C20_EmptyFile ==
    /\ [][\A p \in Procs :
            (/\ pc[p] = "file"
             /\ disk[Head(loc[p].files)] = "t0"
             /\ pc'[p] \in {"file", "scroll"}
             /\ loc'[p].files = Tail(loc[p].files))
            => /\ points' = points
               /\ loc'[p].success_count = loc[p].success_count + 1
               /\ loc'[p].total_chunks = loc[p].total_chunks
               /\ loc'[p].failed_files = loc[p].failed_files]_vars
    /\ [](\A p \in Procs :
            (pc[p] = "update" /\ loc[p].cleaned /\ loc[p].calm
               /\ loc[p].prev = "clean")
            => \A f \in Paths :
                 (disk[f] = "t0" /\ file_id(f) \in loc[p].existing)
                 => \A id \in points : split_first(id) # file_id(f))

\* The second pass over a blank file has done its cleanup and a point
\* stored for the file before it became blank is still in the collection.
C20_Witness ==
    \E p \in Procs :
        /\ pc[p] = "update"
        /\ loc[p].cleaned
        /\ loc[p].calm
        /\ loc[p].prev = "clean"
        /\ disk[PathA] = "t0"
        /\ loc[p].success_count >= 1
        /\ chunk_id(PathA, 0) \in points

\* The points among ids that belong to no file pass p walked.
NotOfWalked(p, ids) ==
    { id \in ids : \A f \in Paths : file_id(f) \in loc[p].existing
                                      => split_first(id) # file_id(f) }

\* The files whose basename pass p recorded as failed.
FailedOf(p) == { f \in Paths : \E i \in 1..Len(loc[p].failed_files) :
                                  loc[p].failed_files[i] = file_name(f) }

\* The points of file f among ids.
PointsOf(f, ids) == { id \in ids : split_first(id) = file_id(f) }

\* C21 as claimed: in every pass the cleanup deletes exactly the points
\* whose prefix before the first '_' is the hash of no file the walker
\* returned at the start of the pass.
C21_Original ==
    [][\A p \in Procs :
         (pc[p] \in {"scroll", "delete"} /\ pc'[p] = "update")
         => points' = points \ NotOfWalked(p, points)]_vars

\* C21: the hashes the cleanup compares with are those of every file the
\* walker returned; when the scroll succeeds the ids selected for deletion
\* are exactly the scrolled ids whose prefix before the first '_' is none of
\* these hashes, and when the delete succeeds exactly the selected points
\* are removed; the cleanup leaves the points of every file that failed in
\* the pass, and it runs after the loop whether or not a file failed.
C21_CleanupSet ==
    [][\A p \in Procs :
         /\ (pc[p] = "walk" /\ pc'[p] # "walk")
            => loc'[p].existing = { file_id(f) : f \in walk_directory(disk) }
         /\ (pc[p] = "file" /\ pc'[p] \notin {"file", "finish"})
            => pc'[p] = "scroll"
         /\ (pc[p] = "scroll" /\ (pc'[p] = "delete" \/ loc'[p].cleaned))
            => /\ loc'[p].stale = NotOfWalked(p, points)
               /\ points' = points
               /\ pc'[p] = "delete" <=> loc'[p].stale # {}
         /\ (pc[p] = "delete" /\ loc'[p].cleaned)
            => points' = points \ loc[p].stale
         /\ (pc[p] \in {"scroll", "delete"} /\ pc'[p] # pc[p])
            => \A f \in FailedOf(p) : PointsOf(f, points') = PointsOf(f, points)
      ]_vars

\* A pass in which a file failed has deleted the points of an absent file
\* and of the documents endpoint and kept the points of the failed file.
C21_Witness ==
    \E p \in Procs :
        /\ pc[p] = "update"
        /\ loc[p].cleaned
        /\ PathA \in FailedOf(p)
        /\ PointsOf(PathA, points) # {}
        /\ PointsOf(PathB, loc[p].stale) # {}
        /\ DocIds \subseteq loc[p].stale
        /\ loc[p].stale \cap points = {}

\* The ids of the chunks of the current text of the files pass p walked.
CurrentIds(p) ==
    { chunk_id(f, i) : f \in { g \in Paths : file_id(g) \in loc[p].existing },
                       i \in 0..1 } \cap
    { id \in AllIds : \E f \in Paths :
        /\ disk[f] \in Texts
        /\ \E i \in 0..(NumChunks(disk[f]) - 1) : id = chunk_id(f, i) }

\* C22: when the body of a pass has processed every walked file without a
\* failure and its scroll and delete succeeded, with nothing else writing
\* files or points meanwhile, the collection holds exactly the chunks of the
\* current text of the walked files.
C22_ExactCollection ==
    \A p \in Procs :
        (/\ pc[p] = "update"
         /\ loc[p].cleaned
         /\ loc[p].calm
         /\ ~loc[p].faults
         /\ loc[p].failed_files = <<>>)
        => points = CurrentIds(p)

\* Such a pass over a file that now has one chunk has ended its cleanup
\* with the second chunk of the file's earlier text still stored, and has
\* removed the point of the documents endpoint.
C22_Witness ==
    \E p \in Procs :
        /\ pc[p] = "update"
        /\ loc[p].cleaned
        /\ loc[p].calm
        /\ ~loc[p].faults
        /\ loc[p].failed_files = <<>>
        /\ disk[PathA] = "t1"
        /\ chunk_id(PathA, 1) \in points
        /\ DocIds \subseteq loc[p].stale

\* The chunker failed in pass p: chunk_text returns no error, it can only
\* panic.
ChunkerFailed(p) == loc[p].result = "panic in chunker"

\* C23 as claimed: when the chunker fails on a file the basename of the
\* file is added to failed_files and the loop goes on to the next file.
C23_Original ==
    [][\A p \in Procs :
         (pc[p] = "file" /\ ChunkerFailed(p)')
         => /\ pc'[p] = AfterFile(loc[p])
            /\ loc'[p].failed_files =
                 Append(loc[p].failed_files, file_name(Head(loc[p].files)))]_vars

\* C23: a failure of the chunker on a file is not absorbed into a per-file
\* record.  The panic ends the body of the pass at that file with nothing
\* upserted for it: no further file is processed, the cleanup and the
\* update of the totals do not run.  run_index then resets is_indexing and
\* sets last_error, and leaves last_indexed_at, the totals and the empty
\* failed_files as they were.
C23_ChunkerPanic ==
    /\ [][\A p \in Procs :
            /\ (pc[p] = "file" /\ ChunkerFailed(p)')
               => /\ pc'[p] = "finish"
                  /\ points' = points
                  /\ status' = status
            /\ (pc[p] = "finish" /\ ChunkerFailed(p) /\ pc'[p] # "finish")
               => /\ pc'[p] = "ret"
                  /\ points' = points
                  /\ status' = [status EXCEPT !.is_indexing = FALSE,
                                              !.last_error = "panic"]]_vars
    /\ [](\A p \in Procs :
            ChunkerFailed(p) => /\ pc[p] = "finish"
                                /\ status.is_indexing
                                /\ status.failed_files = <<>>
                                /\ status.last_error = "none")

\* The chunker panicked in the pass that follows one that indexed both
\* files.
C23_Witness ==
    \E p \in Procs :
        /\ ChunkerFailed(p)
        /\ pc[p] = "finish"
        /\ status.is_indexing
        /\ status.total_files = 2
        /\ status.total_chunks = 3

\* The number of files pass p walked.
Walked(p) == Cardinality(loc[p].existing)

\* C24: an iteration of the loop of do_index in which process_file returns
\* an error appends the basename of the file to failed_files, counts nothing
\* for it and goes on with the next file, or with the cleanup after the last
\* one; a file that cannot be extracted is never counted as successful; only
\* a panic leaves the loop early, do_index never returns an error.  When
\* the cleanup is reached every walked file was processed, and the pass
\* then ends as a success: the recorded basenames are published,
\* last_indexed_at is set and last_error is empty.
C24_ErrorAbsorbed ==
    /\ [][\A p \in Procs :
            /\ (pc[p] = "file" /\ loc'[p].files # loc[p].files
                  /\ pc'[p] # "finish")
               => LET f == Head(loc[p].files)
                      failed == Append(loc[p].failed_files, file_name(f))
                  IN /\ loc'[p].files = Tail(loc[p].files)
                     /\ pc'[p] = IF Tail(loc[p].files) = <<>>
                                 THEN "scroll" ELSE "file"
                     /\ status' = status
                     /\ \/ /\ loc'[p].failed_files = failed
                           /\ loc'[p].success_count = loc[p].success_count
                           /\ loc'[p].total_chunks = loc[p].total_chunks
                        \/ /\ loc'[p].failed_files = loc[p].failed_files
                           /\ loc'[p].success_count = loc[p].success_count + 1
                           /\ disk[f] \in Texts
            /\ (pc[p] = "update" /\ pc'[p] # "update")
               => /\ pc'[p] = "finish"
                  /\ loc'[p].result = "ok"
                  /\ status'.failed_files = loc[p].failed_files
            /\ (pc[p] = "finish" /\ loc[p].result = "ok" /\ pc'[p] # "finish")
               => /\ status'.last_indexed_at = clock
                  /\ status'.last_error = "none"
                  /\ ~status'.is_indexing
                  /\ status'.failed_files = status.failed_files]_vars
    /\ [](\A p \in Procs :
            /\ loc[p].result # "err"
            /\ pc[p] \in {"scroll", "delete", "update"}
               => loc[p].success_count + Len(loc[p].failed_files) = Walked(p))

\* A pass in which the upsert of a.txt failed has processed the other file
\* and ended as a success with a.txt recorded.
C24_Witness ==
    /\ pc[Sched] = "ret"
    /\ quiet = "faulty"
    /\ status.failed_files = <<"a.txt">>
    /\ status.total_files = 1
    /\ status.last_error = "none"
    /\ ~status.is_indexing
    /\ status.last_indexed_at = clock

\* The body of the pass of p ended in a caught panic.
Panicked(p) == pc[p] = "finish" /\ loc[p].result \notin {"ok", "err"}

\* C25: when the pass panics, run_index sets last_error to the message of
\* the panic, resets is_indexing and leaves last_indexed_at as it was, and
\* the call returns an error; last_indexed_at is modified only by the call
\* whose pass ended successfully.
C25_PanicSurfaced ==
    [][/\ \A p \in Procs :
            /\ (Panicked(p) /\ pc'[p] # "finish")
               => /\ status'.last_error = "panic"
                  /\ ~status'.is_indexing
                  /\ status'.last_indexed_at = status.last_indexed_at
            /\ (pc[p] = "ret" /\ loc[p].result = "failed" /\ pc'[p] = "returned")
               => loc'[p].ret = "Err"
       /\ status'.last_indexed_at # status.last_indexed_at
          => \E p \in Procs : /\ pc[p] = "finish"
                              /\ loc[p].result = "ok"
                              /\ pc'[p] = "ret"]_vars

\* A call whose pass panicked has returned Ok, another call having started
\* a pass in between.
C25_Witness ==
    \E p, q \in Procs :
        /\ p # q
        /\ pc[p] = "returned"
        /\ loc[p].result = "failed"
        /\ loc[p].ret = "Ok"
        /\ InBody(q)
        /\ status.last_error = "none"

\* C26: a run_index call that executed a pass returns Ok exactly when its
\* own pass ended without an error or a panic, whatever the other calls do
\* between the end of its pass and its return.
C26_OwnResult ==
    [][\A p \in Procs :
         (pc[p] = "ret" /\ pc'[p] = "returned")
         => (loc'[p].ret = "Ok" <=> loc[p].result = "ok")]_vars

\* A call whose pass succeeded has returned an error: the pass of another
\* call panicked before it read last_error.
C26_Witness ==
    \E p, q \in Procs :
        /\ p # q
        /\ pc[p] = "returned"
        /\ loc[p].result = "ok"
        /\ loc[p].ret = "Err"
        /\ pc[q] \in {"ret", "returned"}
        /\ loc[q].result = "failed"
        /\ status.last_error = "panic"

\* The run_index call of p was rejected with "Indexing already in progress".
Rejected(p) == pc[p] = "returned" /\ loc[p].ret = "AlreadyIndexing"

\* C27: a run_index call that finds is_indexing set returns
\* AlreadyIndexing and changes no field of the status, neither when it is
\* rejected nor afterwards: last_error, failed_files, the totals and
\* is_indexing of the running pass stay as they are.
C27_RejectedFrame ==
    [][\A p \in Procs :
         /\ (pc[p] = "ri_start" /\ status.is_indexing /\ pc'[p] # "ri_start")
            => /\ Rejected(p)'
               /\ status' = status
         /\ (Rejected(p) /\ (pc'[p] # pc[p] \/ loc'[p] # loc[p]))
            => status' = status]_vars

\* A call was rejected while the running pass had published its failed
\* files and totals and not yet reset is_indexing.
C27_Witness ==
    \E p, q \in Procs :
        /\ Rejected(p)
        /\ pc[q] = "finish"
        /\ status.is_indexing
        /\ status.failed_files # <<>>
        /\ status.total_files > 0

\* C28: two manual triggers handled while no pass is running are never
\* both answered 202: no two spawned calls are waiting to start at the same
\* time, each with its request answered 202.
C28_OneAccepted ==
    \A p, q \in Triggers :
        (/\ p # q
         /\ loc[p].http = 202
         /\ loc[q].http = 202
         /\ pc[p] = "ri_start")
        => pc[q] # "ri_start"

\* Both requests were answered 202; the call spawned by one runs the pass
\* and the call spawned by the other was rejected.
C28_Witness ==
    \E p, q \in Triggers :
        /\ loc[p].http = 202
        /\ loc[q].http = 202
        /\ InBody(p)
        /\ Rejected(q)
        /\ pc[Sched] = "sleep"

\* The files pass p walked, those it has still to process and those it
\* processed without an error.
WalkedFiles(p) == { f \in Paths : file_id(f) \in loc[p].existing }
Remaining(p) == { loc[p].files[i] : i \in 1..Len(loc[p].files) }
Succeeded(p) == WalkedFiles(p) \ (Remaining(p) \cup FailedOf(p))

\* The number of chunks of the current text of the files of S.
RECURSIVE ChunksOf(_)
ChunksOf(S) ==
    IF S = {} THEN 0
    ELSE LET f == CHOOSE g \in S : TRUE
         IN NumChunks(disk[f]) + ChunksOf(S \ {f})

\* C29: while the body of a pass runs with no file written meanwhile, its
\* counters are those of the files processed so far: success_count is the
\* number of walked files processed without an error, failed_files lists
\* once the basename of each walked file that failed, total_chunks is the
\* number of chunks upserted for the successful files, whose points are in
\* the collection.  The step that completes the body publishes these three
\* values as total_files, failed_files and total_chunks, and total_files
\* plus the length of failed_files is the number of files walked.
C29_Totals ==
    /\ [](\A p \in Procs :
            (pc[p] \in {"file", "scroll", "delete", "update"} /\ loc[p].calm)
            => /\ loc[p].success_count = Cardinality(Succeeded(p))
               /\ Len(loc[p].failed_files) = Cardinality(FailedOf(p))
               /\ FailedOf(p) \subseteq WalkedFiles(p) \ Remaining(p)
               /\ \A f \in Succeeded(p) : disk[f] \in Texts
               /\ loc[p].total_chunks = ChunksOf(Succeeded(p))
               /\ \A f \in Succeeded(p) :
                    \A i \in 0..(NumChunks(disk[f]) - 1) : chunk_id(f, i) \in points
               /\ pc[p] # "file" => Remaining(p) = {})
    /\ [][\A p \in Procs :
            (pc[p] = "update" /\ pc'[p] # "update")
            => /\ status'.total_files = loc[p].success_count
               /\ status'.failed_files = loc[p].failed_files
               /\ status'.total_chunks = loc[p].total_chunks
               /\ status'.total_files + Len(status'.failed_files)
                    = Cardinality(WalkedFiles(p))]_vars

\* The body of a pass has completed with a.txt indexed in two chunks and
\* b.md failed.
C29_Witness ==
    \E p \in Procs :
        /\ pc[p] = "finish"
        /\ loc[p].result = "ok"
        /\ loc[p].calm
        /\ status.is_indexing
        /\ status.total_files = 1
        /\ status.total_chunks = 2
        /\ status.failed_files = <<"b.md">>

\* C30: no guard of the status mutex is alive while a pass is suspended in
\* an upsert, the scroll or the delete: in every such state get_status and
\* set_interval can take the lock and complete, and a get_status call made
\* while a pass is suspended there reports is_indexing = true.
C30_LockFree ==
    /\ [](\A p \in Procs :
            pc[p] \in AwaitPcs
            => /\ lock = "free"
               /\ ENABLED rag_status_handler
               /\ \A minutes \in Intervals : ENABLED rag_config_handler(minutes))
    /\ [](seen.awaiting => seen.is_indexing)
    /\ [][\A p \in Procs :
            pc[p] \in AwaitPcs /\ seen' # seen
            => /\ seen'.awaiting
               /\ seen'.is_indexing
               /\ pc'[p] = pc[p]
               /\ status' = status]_vars

\* The interval was changed and the status was read while a pass was
\* suspended in its cleanup; the status read there said is_indexing.
C30_Witness ==
    \E p \in Procs :
        /\ pc[p] = "delete"
        /\ seen.asked
        /\ seen.awaiting
        /\ seen.is_indexing
        /\ status.auto_index_interval_minutes = 5
        /\ lock = "free"

\* C31: the scheduler sleeps for the interval that the status holds when
\* run_index has returned (so a set_interval made before that read decides
\* the sleep), a set_interval made during a sleep leaves the sleep in
\* progress as it is, and whatever the attempt returned (Ok, Err or
\* AlreadyIndexing) the scheduler goes on to sleep and then to the next
\* attempt.
C31_SchedulerInterval ==
    [][/\ (pc[Sched] = "returned" /\ pc'[Sched] # "returned")
          => /\ pc'[Sched] = "sleep"
             /\ loc'[Sched].sleep = status.auto_index_interval_minutes * 60
             /\ loc'[Sched].ret = loc[Sched].ret
       /\ (pc[Sched] = "sleep" /\ pc'[Sched] = "sleep")
          => loc'[Sched].sleep = loc[Sched].sleep
       /\ (pc[Sched] = "sleep" /\ pc'[Sched] # "sleep")
          => pc'[Sched] = "ri_start"]_vars

\* After a failed or rejected attempt the scheduler read an interval of 5
\* minutes, and the interval was set to 60 during the sleep.
C31_Witness ==
    /\ pc[Sched] = "sleep"
    /\ loc[Sched].ret \in {"Err", "AlreadyIndexing"}
    /\ loc[Sched].sleep = 300
    /\ status.auto_index_interval_minutes = 60

\* C32: a successful rollback of F to version N adds exactly one entry at
\* the end of F's meta (the entries before it are those of the meta before
\* the call, less the oldest ones evicted at the cap); the entry is numbered
\* one above the last recorded version, carries the comment
\* "Auto-saved before rollback to v<N>", and a payload file of its number
\* holds the content the live file had immediately before the rollback.
C32_RollbackAutoSave ==
    [][(Called("rollback") /\ vres'.code = 200)
         => /\ meta # <<>>
            /\ meta' # <<>>
            /\ LET e == meta'[Len(meta')]
                   kept == SubSeq(meta', 1, Len(meta') - 1)
               IN /\ \E k \in 0..Len(meta) : kept = SubSeq(meta, k + 1, Len(meta))
                  /\ e.version = meta[Len(meta)].version + 1
                  /\ e.version = vres'.saved
                  /\ e.comment = RollbackComment(vres'.n)
                  /\ \E f \in payload' : f.version = e.version /\ f.content = live]_vars

\* A rollback succeeded on a full history: the entry it added is the newest
\* one, its payload holds the content before the rollback, and the live file
\* holds another content.
C32_Witness ==
    /\ vres.op = "rollback"
    /\ vres.code = 200
    /\ Len(meta) = MAX_VERSIONS
    /\ meta[Len(meta)].version = vres.saved
    /\ meta[Len(meta)].comment = RollbackComment(vres.n)
    /\ \E f \in payload : f.version = vres.saved /\ f.content = vres.before
    /\ live # vres.before

\* C33: a rollback of F to a version that F's meta does not list fails and
\* changes nothing: no version is auto-saved, and the live file, the meta
\* and the payload files are as before the call.
C33_UnlistedRollback ==
    [][(Called("rollback") /\ vres'.n \notin ListedVersions)
         => /\ vres'.code # 200
            /\ vres'.saved = 0
            /\ live' = live
            /\ meta' = meta
            /\ payload' = payload]_vars

\* A rollback of an existing file with a history to a version that is not
\* listed, of which a payload file is on disk, was refused.
C33_Witness ==
    /\ vres.op = "rollback"
    /\ vres.code = 500
    /\ vres.saved = 0
    /\ meta # <<>>
    /\ vres.n \notin ListedVersions
    /\ \E f \in payload : f.version = vres.n
    /\ live = vres.before

\* The step is a handler call in which save_version was called on the
\* existing file and failed.
SaveFailed ==
    /\ live # Absent
    /\ vres'.saved = 0
    /\ \/ Called("upload")
       \/ /\ Called("rollback")
          /\ vres'.n \in ListedVersions
          /\ find_version_file(payload, vres'.n) # {}

\* C34 as claimed: a save_version call that fails leaves the version store
\* as it was: meta is unchanged and every listed version that had a payload
\* file still has it.
C34_FailedSaveFrame ==
    [][SaveFailed
         => /\ meta' = meta
            /\ \A v \in ListedVersions :
                  find_version_file(payload, v) # {}
                     => find_version_file(payload', v) # {}]_vars

\* The save_version of an upload failed on a full history: meta still lists
\* its oldest version, whose payload file is gone.
C34_Witness ==
    /\ vres.op = "upload"
    /\ vres.before # Absent
    /\ vres.saved = 0
    /\ Len(meta) = MAX_VERSIONS
    /\ find_version_file(payload, meta[1].version) = {}

\* The save_version call of the handler of c returned Ok and the handler is
\* over.
Saved(c) == saves[c].pc = "done" /\ saves[c].saved # 0

\* The entry of the save_version call of c is listed in meta.
EntryOf(c) ==
    \E i \in 1..Len(meta) :
       /\ meta[i].version = saves[c].saved
       /\ meta[i].comment = IF c = "upload" THEN UploadComment
                            ELSE RollbackComment(saves[c].version)

\* C35 as claimed: when the save_version calls of an upload and of a
\* rollback of the same file interleave and both succeed, meta afterwards
\* lists the entry of each, the two carry different version numbers, and
\* the version-history invariant holds: at most MAX_VERSIONS entries,
\* increasing numbers, a payload file for every listed version.
C35_ConcurrentSaves ==
    (\A c \in Savers : Saved(c))
       => /\ \A c \in Savers : EntryOf(c)
          /\ saves["upload"].saved # saves["rollback"].saved
          /\ Len(meta) <= MAX_VERSIONS
          /\ \A i \in 1..(Len(meta) - 1) : meta[i].version < meta[i + 1].version
          /\ \A v \in ListedVersions : find_version_file(payload, v) # {}

\* Both calls returned Ok with the same version number, and meta lists the
\* entry of the rollback only.
C35_Witness ==
    /\ \A c \in Savers : Saved(c)
    /\ saves["upload"].saved = saves["rollback"].saved
    /\ EntryOf("rollback")
    /\ ~EntryOf("upload")

\* The path lies below a directory named ".versions".
UnderVersions(f) == \E i \in 1..Len(f.dirs) : f.dirs[i] = ".versions"

\* C36: whatever the version stores of the upload directory hold, no pass
\* walks, extracts or counts a file below a ".versions" directory: none is
\* in the walked list or in existing_file_hashes, none is recorded in
\* failed_files or adds to total_files, and no point of the collection
\* carries the id of one.
C36_VersionsSkipped ==
    /\ \A p \in Procs :
          /\ \A i \in 1..Len(loc[p].files) : ~UnderVersions(loc[p].files[i])
          /\ \A v \in VersionPaths : file_id(v) \notin loc[p].existing
          /\ \A i \in 1..Len(loc[p].failed_files) :
                \A v \in VersionPaths : loc[p].failed_files[i] # file_name(v)
    /\ \A i \in 1..Len(status.failed_files) :
          \A v \in VersionPaths : status.failed_files[i] # file_name(v)
    /\ status.total_files <= Cardinality({ f \in Paths : disk[f] # "none" })
    /\ \A id \in points : \A v \in VersionPaths : split_first(id) # file_id(v)

\* A pass ended over a directory holding a.txt, sub/b.md and the three
\* version files: it counted two files and stored their points only.
C36_Witness ==
    /\ status.last_indexed_at # NoTime
    /\ pc[Sched] = "returned"
    /\ \A v \in VersionPaths : UnderVersions(v) /\ disk[v] # "none"
    /\ status.total_files = 2
    /\ chunk_id(PathA, 0) \in points
    /\ chunk_id(PathB, 0) \in points

\* C37 as claimed: the file an upload writes lies in the upload directory,
\* within the directory safe_resolve returned for the path parameter of the
\* request, whatever file name the multipart field carries.
C37_UploadInside ==
    (paths.resp.op = "upload" /\ paths.resp.code = 200)
       => /\ starts_with(paths.resp.path, paths.resp.dir)
          /\ starts_with(paths.resp.path, upload_dir)

\* An upload was answered 200 and wrote its file outside the upload
\* directory.
C37_Witness ==
    /\ paths.resp.op = "upload"
    /\ paths.resp.code = 200
    /\ starts_with(paths.resp.dir, upload_dir)
    /\ ~starts_with(paths.resp.path, upload_dir)
    /\ \E e \in paths.tree : e.path = paths.resp.path /\ e.kind = "file"

\* The texts detect_and_mask can return for a text, over the values the rng
\* draws and the positions of the address counter.
MaskedTexts(text) ==
    { detect_and_mask([address_counter |-> k], text, rng).text :
        k \in 0..(FAKE_ADDRESSES - 1), rng \in Draws(text) }

\* C38: the request given to the upstream has the model id and the sampling
\* parameters of the client's request and the same messages in the same
\* order with the same roles; the content of every message but the last one
\* of role "user" is the client's (earlier user messages included), and the
\* content of that one is the masked text of rag_context followed by the
\* content the client sent in it.
C38_ForwardedFrame ==
    \A r \in ChatReqs :
       LET c == chat[r]
           u == last_user(c.body)
       IN c.sent # <<>> =>
            /\ c.sent_request = RequestOf(r)
            /\ Len(c.sent) = Len(c.body)
            /\ \A i \in 1..Len(c.body) :
                  /\ c.sent[i].role = c.body[i].role
                  /\ i # u => c.sent[i].content = c.body[i].content
            /\ c.sent[u].content \in MaskedTexts(c.rag_context \o c.body[u].content)

\* A request with two user messages, a context and sampling parameters was
\* forwarded: the first user message went out as the client sent it, the
\* last one was replaced.
C38_Witness ==
    LET c == chat["q1"]
        u == last_user(c.body)
    IN /\ c.sent # <<>>
       /\ c.rag_context # <<>>
       /\ u = 2
       /\ c.body[1].role = "user"
       /\ c.sent[1].content = c.body[1].content
       /\ c.sent[u].content # c.body[u].content
       /\ c.sent_request.temperature = {7}

\* C39: the response returned with 200 is the upstream's in every field and
\* every choice but the content of the first choice, which is the
\* upstream's unmasked with the mappings of the request and then sanitized;
\* the audit row of the request has the upstream's first-choice content as
\* llm_output and the returned first-choice content as final_output.
C39_ResponseFrame ==
    \A r \in ChatReqs :
       LET c == chat[r]
           got == c.llm_response
           out == c.final_response
       IN (c.pc = "done" /\ c.code = 200) =>
            /\ out.id = got.id
            /\ Len(out.choices) = Len(got.choices)
            /\ \A i \in 2..Len(got.choices) : out.choices[i] = got.choices[i]
            /\ got.choices # <<>> =>
                 /\ out.choices[1].index = got.choices[1].index
                 /\ out.choices[1].finish_reason = got.choices[1].finish_reason
                 /\ out.choices[1].content
                      \in { sanitize(unmask(got.choices[1].content, order)) :
                              order \in Orders(c.mappings) }
            /\ Rows(r) # {}
            /\ \A e \in Rows(r) :
                  /\ e.llm_output = FirstContent(got)
                  /\ e.final_output = FirstContent(out)

\* A response of two choices was returned: the first one unmasked and
\* sanitized, the second one as received, with its command and its fake
\* value; the audit row holds the first choice before and after.
C39_Witness ==
    \E r \in ChatReqs :
       LET c == chat[r]
       IN /\ c.pc = "done" /\ c.code = 200
          /\ c.mappings # {}
          /\ Len(c.llm_response.choices) = 2
          /\ c.final_response.choices[1].content # c.llm_response.choices[1].content
          /\ contains(c.final_response.choices[2].content, Dangerous)
          /\ \E m \in c.mappings : contains(c.final_response.choices[2].content, m.fake)
          /\ \E e \in Rows(r) : e.llm_output # e.final_output

\* C40 as claimed: for every text, every max_chunk_size >= 1 and every
\* overlap, each chunk chunk_text collects is a non-empty trimmed string of
\* at most max_chunk_size bytes, also when the tentative end was moved up to
\* the next character boundary.
C40_ChunkBound ==
    chunker.max_chunk_size >= 1 =>
       \A i \in 1..Len(chunker.chunks) :
          /\ chunker.chunks[i] # <<>>
          /\ trim(chunker.chunks[i]) = chunker.chunks[i]
          /\ Len(chunker.chunks[i]) <= chunker.max_chunk_size

\* A call returned a chunk that ends with a three-byte character and is
\* longer than max_chunk_size, which is large enough to hold the character.
C40_Witness ==
    /\ chunker.pc = "done"
    /\ chunker.max_chunk_size >= Len(encode("maru"))
    /\ \E i \in 1..Len(chunker.chunks) :
          LET chunk == chunker.chunks[i]
          IN /\ Len(chunk) > chunker.max_chunk_size
             /\ slice(chunk, Len(chunk) - 3, Len(chunk)) = encode("maru")

====
